---- MODULE Spec2Model ----
(***************************************************************************)
(* A model of the javacard-docker-emulator scripts:                        *)
(*   - the card emulation engine (SimpleCardSimulator of                   *)
(*     jcardsim-socket-server.py): process_apdu and the two applets;       *)
(*   - the socket server that runs one thread per client over one shared   *)
(*     SimpleCardSimulator (SocketServer of jcardsim-socket-server.py);    *)
(*   - the virtual-reader adapters and their backend client                *)
(*     (vpcd-proxy.py, vpcd-jcardsim-proxy.py, pcsc-bridge.py);            *)
(*   - the framing of a message on a backend connection (send_apdu and     *)
(*     _recv_exact of the clients, _handle_client of the socket server).   *)
(*                                                                         *)
(* Bytes are integers 0..255 and byte strings are sequences of them.       *)
(* Python's unbounded integers that may pass 2^31 (the counter value and   *)
(* its limit) are kept as pairs <<hi, lo>> of 16-bit halves, hi*65536+lo.  *)
(***************************************************************************)
EXTENDS Integers, Sequences, FiniteSets, TLC

(***************************************************************************)
(* Bounds of the model.                                                    *)
(***************************************************************************)
\* Commands that reach an applet handler in one run of the engine
\* (hw_usage_count + counter_op_count never passes it).
MaxOps == 4

\* Client threads of the socket server, and frames each of them sends.
NClients == 2
MaxFrames == 2

\* Reader-driver connections (adapters) served at once by one bridge.
NAdapters == 2

\* Frames written to one stream, and the length of the longest payload
\* (the first length whose high byte is not 0).
MaxSent == 2
LongLen == 256

\* Bytes a breaking connection may lose.
MaxLost == 3

\* The longest data field of a SELECT, and the applet commands that may
\* follow it.
MaxAid == 254
MaxSelectOps == 1

\* The bytes a handler of pcsc-bridge.py holds of the frames it reads on.
MaxHeld == 7

(***************************************************************************)
(* Python values.                                                          *)
(***************************************************************************)
None == <<>>
Some(v) == <<v>>

Min(a, b) == IF a < b THEN a ELSE b
Max(a, b) == IF a > b THEN a ELSE b

\* b[i:j] of a bytes object (0-based, half open, clipped to the length).
Slice(b, i, j) == SubSeq(b, i + 1, Min(j, Len(b)))

\* 2^16: the radix of the pairs that stand for Python integers.
Radix == 256 * 256

\* The Python integer hi*65536 + lo.
PyInt(hi, lo) == <<hi, lo>>

\* a + n for a Python integer a and 0 <= n < 2^16.
IntAdd(a, n) == LET l == a[2] + n IN <<a[1] + (l \div Radix), l % Radix>>

\* a - n for a Python integer a and 0 <= n < 2^16; below 0 the first
\* component is negative.
IntSub(a, n) == IF a[2] >= n THEN <<a[1], a[2] - n>> ELSE <<a[1] - 1, a[2] + Radix - n>>

\* a > b for Python integers.
IntGt(a, b) == a[1] > b[1] \/ (a[1] = b[1] /\ a[2] > b[2])

\* a < n for a Python integer a and 0 <= n < 2^16.
IntLtSmall(a, n) == a[1] < 0 \/ (a[1] = 0 /\ a[2] < n)

\* int.from_bytes(data, 'big') of 4 bytes and of 2 bytes.
from_bytes4(data) == PyInt(data[1] * 256 + data[2], data[3] * 256 + data[4])
from_bytes2(data) == data[1] * 256 + data[2]

\* v.to_bytes(4, 'big') of a Python integer below 2^32, n.to_bytes(2, 'big') of
\* a small one; to_bytes raises OverflowError when the value does not fit
\* or is negative.
Fits4(v) == 0 <= v[1] /\ v[1] < Radix
Fits2(n) == n < Radix
to_bytes4(v) == <<v[1] \div 256, v[1] % 256, v[2] \div 256, v[2] % 256>>
to_bytes2(n) == <<(n \div 256) % 256, n % 256>>

(***************************************************************************)
(* SimpleCardSimulator: constants.                                         *)
(***************************************************************************)
AID_HELLOWORLD == <<\hF0, 0, 0, 0, 1, 0, 1>>
AID_COUNTER == <<\hF0, 0, 0, 0, 1, 0, 2>>

SW_OK == <<\h90, \h00>>
SW_WRONG_LENGTH == <<\h67, \h00>>
SW_INS_NOT_SUPPORTED == <<\h6D, \h00>>
SW_CONDITIONS_NOT_SATISFIED == <<\h69, \h85>>
SW_SECURITY_NOT_SATISFIED == <<\h69, \h82>>

\* b'Hello World!' and the reference PIN b'1234'.
HELLO_WORLD == <<72, 101, 108, 108, 111, 32, 87, 111, 114, 108, 100, 33>>
PIN_1234 == <<49, 50, 51, 52>>

\* SimpleCardSimulator.__init__
SimInit ==
  [ selected_aid |-> None,
    data_store |-> None,
    hw_pin_validated |-> FALSE,
    hw_pin_tries |-> 3,
    hw_usage_count |-> 0,
    counter_value |-> PyInt(0, 0),
    counter_limit |-> PyInt(\h7FFF, \hFFFF),
    counter_limit_enabled |-> FALSE,
    counter_op_count |-> 0 ]

\* What a call leaves behind: the simulator, and the bytes returned or the
\* exception raised.
Ret(s, r) == [sim |-> s, resp |-> r, exc |-> FALSE]
Raise(s) == [sim |-> s, resp |-> <<>>, exc |-> TRUE]

\* self.data_store.get('hw_data', b'')
hw_data(s) == IF s.data_store = None THEN <<>> ELSE s.data_store[1]

(***************************************************************************)
(* SimpleCardSimulator: the HelloWorld applet.  Each operator is one       *)
(* branch of _process_helloworld, applied to the simulator after the       *)
(* usage count was incremented.                                            *)
(***************************************************************************)
\* ins == 0x00, HELLO
hw_hello(s) == Ret(s, HELLO_WORLD \o SW_OK)

\* ins == 0x01, ECHO
hw_echo(s, data) == IF data # <<>> THEN Ret(s, data \o SW_OK) ELSE Ret(s, SW_OK)

\* ins == 0x02, GET_DATA
hw_get_data(s) ==
  LET stored == hw_data(s)
  IN  IF stored # <<>> THEN Ret(s, stored \o SW_OK)
      ELSE Ret(s, SW_CONDITIONS_NOT_SATISFIED)

\* PUT_DATA that writes only while nothing is stored yet.
hw_put_data_keeps_first(s, data) ==
  IF ~s.hw_pin_validated THEN Ret(s, SW_CONDITIONS_NOT_SATISFIED)
  ELSE IF data # <<>> /\ s.data_store = None
       THEN Ret([s EXCEPT !.data_store = Some(data)], SW_OK)
  ELSE Ret(s, SW_OK)

\* PUT_DATA that answers like PUT_DATA and stores nothing.
hw_put_data_stores_nothing(s, data) ==
  IF ~s.hw_pin_validated THEN Ret(s, SW_CONDITIONS_NOT_SATISFIED) ELSE Ret(s, SW_OK)

\* ins == 0x03, PUT_DATA
hw_put_data(s, data) ==
  IF ~s.hw_pin_validated THEN Ret(s, SW_CONDITIONS_NOT_SATISFIED)
  ELSE IF data # <<>> THEN Ret([s EXCEPT !.data_store = Some(data)], SW_OK)
  ELSE Ret(s, SW_OK)

\* VERIFY PIN that refuses the right value once no try is left.
hw_verify_pin_blocks_at_zero(s, data) ==
  IF data = PIN_1234 /\ s.hw_pin_tries > 0
  THEN Ret([s EXCEPT !.hw_pin_validated = TRUE, !.hw_pin_tries = 3], SW_OK)
  ELSE LET tries == Max(0, s.hw_pin_tries - 1)
       IN  Ret([s EXCEPT !.hw_pin_tries = tries], <<\h63, \hC0 + tries>>)

\* VERIFY PIN that decrements the try counter without the floor max(0, ..).
hw_verify_pin_no_floor(s, data) ==
  IF data = PIN_1234
  THEN Ret([s EXCEPT !.hw_pin_validated = TRUE, !.hw_pin_tries = 3], SW_OK)
  ELSE LET tries == s.hw_pin_tries - 1
       IN  Ret([s EXCEPT !.hw_pin_tries = tries], <<\h63, \hC0 + tries>>)

\* ins == 0x20, VERIFY PIN
hw_verify_pin(s, data) ==
  IF data = PIN_1234
  THEN Ret([s EXCEPT !.hw_pin_validated = TRUE, !.hw_pin_tries = 3], SW_OK)
  ELSE LET tries == Max(0, s.hw_pin_tries - 1)
       IN  \* 0xC0 | tries, with tries in 0..3
           Ret([s EXCEPT !.hw_pin_tries = tries], <<\h63, \hC0 + tries>>)

\* ins == 0xF0, GET STATUS
hw_get_status(s) ==
  LET data_len == Len(hw_data(s))
  IN  Ret(s, << 1, 0,
                (s.hw_usage_count \div 256) % 256, s.hw_usage_count % 256,
                s.hw_pin_tries,
                IF s.hw_pin_validated THEN 1 ELSE 0,
                (data_len \div 256) % 256, data_len % 256 >> \o SW_OK)

\* The usage count kept in the Counter applet's operation count.
hw_count_usage_in_op_count(s) == [s EXCEPT !.counter_op_count = @ + 1]

\* self.hw_usage_count += 1
hw_count_usage(s) == [s EXCEPT !.hw_usage_count = @ + 1]

\* SimpleCardSimulator._process_helloworld
process_helloworld(s, ins, p1, p2, data) ==
  LET s1 == hw_count_usage(s)
  IN  CASE ins = \h00 -> hw_hello(s1)
        [] ins = \h01 -> hw_echo(s1, data)
        [] ins = \h02 -> hw_get_data(s1)
        [] ins = \h03 -> hw_put_data(s1, data)
        [] ins = \h20 -> hw_verify_pin(s1, data)
        [] ins = \hF0 -> hw_get_status(s1)
        [] OTHER -> Ret(s1, SW_INS_NOT_SUPPORTED)

(***************************************************************************)
(* SimpleCardSimulator: the Counter applet.  Each operator is one branch   *)
(* of _process_counter, applied after the operation count was incremented. *)
(***************************************************************************)
\* counter_bytes() + b'\x90\x00'
counter_reply(s) ==
  IF Fits4(s.counter_value) THEN Ret(s, to_bytes4(s.counter_value) \o SW_OK) ELSE Raise(s)

\* The check of new_val against the enabled limit alone.
counter_over_limit_only(s, new_val) ==
  s.counter_limit_enabled /\ IntGt(new_val, s.counter_limit)

\* The two checks of INCREMENT and ADD_VALUE on new_val.
counter_over(s, new_val) ==
  \/ s.counter_limit_enabled /\ IntGt(new_val, s.counter_limit)
  \/ IntGt(new_val, PyInt(\hFFFF, \hFFFF))

\* ins == 0x10, GET_COUNTER
counter_get(s) == counter_reply(s)

\* ins == 0x11, INCREMENT
counter_increment(s, p1) ==
  LET inc == IF p1 > 0 THEN p1 ELSE 1
      new_val == IntAdd(s.counter_value, inc)
  IN  IF counter_over(s, new_val) THEN Ret(s, SW_CONDITIONS_NOT_SATISFIED)
      ELSE counter_reply([s EXCEPT !.counter_value = new_val])

\* ins == 0x12, DECREMENT
counter_decrement(s, p1) ==
  LET dec == IF p1 > 0 THEN p1 ELSE 1
  IN  IF IntLtSmall(s.counter_value, dec) THEN Ret(s, SW_CONDITIONS_NOT_SATISFIED)
      ELSE counter_reply([s EXCEPT !.counter_value = IntSub(@, dec)])

\* ins == 0x13, RESET
counter_reset(s) == Ret([s EXCEPT !.counter_value = PyInt(0, 0)], SW_OK)

\* ins == 0x14, SET_VALUE
counter_set_value(s, data) ==
  IF Len(data) # 4 THEN Ret(s, SW_WRONG_LENGTH)
  ELSE LET new_val == from_bytes4(data)
       IN  IF s.counter_limit_enabled /\ IntGt(new_val, s.counter_limit)
           THEN Ret(s, SW_CONDITIONS_NOT_SATISFIED)
           ELSE Ret([s EXCEPT !.counter_value = new_val], SW_OK)

\* A SET_LIMIT that refuses an enabled limit below the counter value.
counter_set_limit_checks_value(s, p1, data) ==
  IF Len(data) # 4 THEN Ret(s, SW_WRONG_LENGTH)
  ELSE IF p1 = 1 /\ IntGt(s.counter_value, from_bytes4(data))
       THEN Ret(s, SW_CONDITIONS_NOT_SATISFIED)
  ELSE Ret([s EXCEPT !.counter_limit = from_bytes4(data),
                     !.counter_limit_enabled = (p1 = 1)], SW_OK)

\* ins == 0x15, SET_LIMIT
counter_set_limit(s, p1, data) ==
  IF Len(data) # 4 THEN Ret(s, SW_WRONG_LENGTH)
  ELSE Ret([s EXCEPT !.counter_limit = from_bytes4(data),
                     !.counter_limit_enabled = (p1 = 1)], SW_OK)

\* ins == 0x16, GET_INFO
counter_get_info(s) ==
  IF Fits4(s.counter_value) /\ Fits4(s.counter_limit) /\ Fits2(s.counter_op_count)
  THEN Ret(s, to_bytes4(s.counter_value) \o to_bytes4(s.counter_limit)
              \o << IF s.counter_limit_enabled THEN 1 ELSE 0 >>
              \o to_bytes2(s.counter_op_count) \o SW_OK)
  ELSE Raise(s)

\* ins == 0x17, ADD_VALUE
counter_add_value(s, data) ==
  IF Len(data) # 2 THEN Ret(s, SW_WRONG_LENGTH)
  ELSE LET new_val == IntAdd(s.counter_value, from_bytes2(data))
       IN  IF counter_over(s, new_val) THEN Ret(s, SW_CONDITIONS_NOT_SATISFIED)
           ELSE counter_reply([s EXCEPT !.counter_value = new_val])

\* ins == 0x18, SUB_VALUE
counter_sub_value(s, data) ==
  IF Len(data) # 2 THEN Ret(s, SW_WRONG_LENGTH)
  ELSE LET sub_val == from_bytes2(data)
       IN  IF IntLtSmall(s.counter_value, sub_val) THEN Ret(s, SW_CONDITIONS_NOT_SATISFIED)
           ELSE counter_reply([s EXCEPT !.counter_value = IntSub(@, sub_val)])

\* self.counter_op_count += 1
counter_count_op(s) == [s EXCEPT !.counter_op_count = @ + 1]

\* SimpleCardSimulator._process_counter
process_counter(s, ins, p1, p2, data) ==
  LET s1 == counter_count_op(s)
  IN  CASE ins = \h10 -> counter_get(s1)
        [] ins = \h11 -> counter_increment(s1, p1)
        [] ins = \h12 -> counter_decrement(s1, p1)
        [] ins = \h13 -> counter_reset(s1)
        [] ins = \h14 -> counter_set_value(s1, data)
        [] ins = \h15 -> counter_set_limit(s1, p1, data)
        [] ins = \h16 -> counter_get_info(s1)
        [] ins = \h17 -> counter_add_value(s1, data)
        [] ins = \h18 -> counter_sub_value(s1, data)
        [] OTHER -> Ret(s1, SW_INS_NOT_SUPPORTED)

(***************************************************************************)
(* SimpleCardSimulator: SELECT and the dispatch.                           *)
(***************************************************************************)
\* SELECT that also drops the PIN validation.
handle_select_resets_pin(s, apdu) ==
  IF Len(apdu) < 5 THEN Ret(s, SW_WRONG_LENGTH)
  ELSE LET lc == apdu[5]
       IN  IF Len(apdu) < 5 + lc THEN Ret(s, SW_WRONG_LENGTH)
           ELSE LET aid == Slice(apdu, 5, 5 + lc)
                    s1 == [s EXCEPT !.selected_aid = Some(aid), !.hw_pin_validated = FALSE]
                IN  IF Len(aid) + 2 > 255 THEN Raise(s1)
                    ELSE Ret(s1, <<\h6F, Len(aid) + 2, \h84, Len(aid)>> \o aid \o SW_OK)

\* SimpleCardSimulator._handle_select
handle_select(s, apdu) ==
  IF Len(apdu) < 5 THEN Ret(s, SW_WRONG_LENGTH)
  ELSE LET lc == apdu[5]
       IN  IF Len(apdu) < 5 + lc THEN Ret(s, SW_WRONG_LENGTH)
           ELSE LET aid == Slice(apdu, 5, 5 + lc)
                    s1 == [s EXCEPT !.selected_aid = Some(aid)]
                IN  \* bytes([.., len(aid) + 2, ..]) raises ValueError above 255
                    IF Len(aid) + 2 > 255 THEN Raise(s1)
                    ELSE Ret(s1, <<\h6F, Len(aid) + 2, \h84, Len(aid)>> \o aid \o SW_OK)

\* The data field process_apdu hands to the applet handlers.
apdu_data(apdu) ==
  LET lc == IF Len(apdu) > 4 THEN apdu[5] ELSE 0
  IN  IF Len(apdu) > 5 THEN Slice(apdu, 5, 5 + lc) ELSE <<>>

\* A dispatch that does not look at the class byte.
dispatch_apdu_any_class(s, apdu) ==
  LET ins == apdu[2]
      p1 == apdu[3]
      p2 == apdu[4]
      data == apdu_data(apdu)
  IN  IF ins = \hA4 THEN handle_select(s, apdu)
      ELSE IF ins = \hC0 THEN Ret(s, SW_OK)
      ELSE IF s.selected_aid = Some(AID_HELLOWORLD)
           THEN process_helloworld(s, ins, p1, p2, data)
      ELSE IF s.selected_aid = Some(AID_COUNTER)
           THEN process_counter(s, ins, p1, p2, data)
      ELSE Ret(s, SW_INS_NOT_SUPPORTED)

\* SimpleCardSimulator.process_apdu, for a command of at least 4 bytes.
dispatch_apdu(s, apdu) ==
  LET cla == apdu[1]
      ins == apdu[2]
      p1 == apdu[3]
      p2 == apdu[4]
      data == apdu_data(apdu)
  IN  IF ins = \hA4 THEN handle_select(s, apdu)
      ELSE IF ins = \hC0 THEN Ret(s, SW_OK)
      ELSE IF cla = \h80 /\ s.selected_aid = Some(AID_HELLOWORLD)
           THEN process_helloworld(s, ins, p1, p2, data)
      ELSE IF cla = \h80 /\ s.selected_aid = Some(AID_COUNTER)
           THEN process_counter(s, ins, p1, p2, data)
      ELSE Ret(s, SW_INS_NOT_SUPPORTED)

\* process_apdu without its length check: apdu[0..3] of a shorter command
\* raises IndexError.
process_apdu_no_length_check(s, apdu) ==
  IF Len(apdu) < 4 THEN Raise(s) ELSE dispatch_apdu(s, apdu)

\* SimpleCardSimulator.process_apdu
process_apdu(s, apdu) ==
  IF Len(apdu) < 4 THEN Ret(s, SW_WRONG_LENGTH) ELSE dispatch_apdu(s, apdu)

(***************************************************************************)
(* The state.                                                              *)
(*                                                                         *)
(* The engine:                                                             *)
(*   sim       the SimpleCardSimulator instance                            *)
(*   before    the simulator as it was when the last process_apdu call     *)
(*             started                                                     *)
(*   apdu      the command of the last process_apdu call (None: no call)   *)
(*   response  the bytes that call returned                                *)
(*   raised    whether that call raised instead of returning               *)
(*   last_put  the data field of the last PUT_DATA that returned 9000      *)
(*             (None: there was none)                                      *)
(*   followed  how many commands of the EndToEnd sequence the run has      *)
(*             made so far, when it has made nothing else (-1: it has)     *)
(*   hw_cycle  where HelloWorld stands: "away" (deselected by a SELECT of  *)
(*             Counter when its PIN had been validated), "back" (selected  *)
(*             again since, and no VERIFY PIN has succeeded yet), or       *)
(*             "plain" (neither)                                           *)
(*                                                                         *)
(* The socket server, one _handle_client thread per client t:              *)
(*   tpc[t]    where the thread stands                                     *)
(*   tcmd[t]   the APDU it received last                                   *)
(*   tloc[t]   its locals: the counter it loaded for "+= 1", new_val of    *)
(*             INCREMENT, and the response it is about to send             *)
(*   tsent[t]  the frames client t has sent                                *)
(*   hw_dispatched  the process_apdu calls routed to _process_helloworld   *)
(*   inc_accepted   the sum of the amounts of the INCREMENTs that stored   *)
(*                  their new value, less those of the DECREMENTs that     *)
(*                  stored theirs                                          *)
(*                                                                         *)
(* A bridge, one handler thread per reader-driver connection a:            *)
(*   variant     which script runs                                         *)
(*   apc[a]      where the handler stands                                  *)
(*   powered[a]  card_powered / powered_on of the handler                  *)
(*   req[a]      the frame it read last (None: none yet)                   *)
(*   reply[a]    the reply it sent for that frame (None: none)             *)
(*   was_powered[a]  powered[a] when that frame was read                   *)
(*   touched[a]  whether handling that frame called connect or send_apdu   *)
(*               of the backend client                                     *)
(*   lock        the holder of the backend client's lock (0: free)         *)
(*   sock        the backend client's socket                               *)
(*   backend_up  whether the backend accepts connections                   *)
(*   disturbed   whether a connect or disconnect closed or replaced the    *)
(*               socket while another caller's exchange was in flight      *)
(*   note[a]     about the frame a read last, when it is an APDU request:  *)
(*               cold, whether the client had no open socket when it was   *)
(*               read; calm, whether the backend was up until the reply    *)
(*               and broke no exchange of it; got, the response the        *)
(*               backend gave to its exchange (None: nothing was received) *)
(*   last_exchange  "failed" when the latest call of the client was a      *)
(*               send_apdu that failed and no call has started since,      *)
(*               "none" otherwise                                          *)
(*   survived    the handlers whose exchange was in flight when another    *)
(*               connection closed, and is in flight still                 *)
(*   late        the backend's response to an earlier command that the     *)
(*               client has not read from its socket (None: the stream     *)
(*               holds nothing unread)                                     *)
(*                                                                         *)
(* One direction of a backend connection, the byte stream from the side    *)
(* that frames a message to the side that reads it:                        *)
(*   wire       the bytes written and not yet read                         *)
(*   rx_pc      what the reader is reading, "length" or "payload";         *)
(*              "closed" when it has given the stream up, "held" when the  *)
(*              stream has ended and the reader keeps its socket           *)
(*   rx_data    data of _recv_exact, the bytes it has collected            *)
(*   rx_length  the length the reader unpacked                             *)
(*   decoded    the payloads the reader has returned to its caller         *)
(*   sent       the payloads the writer has framed                         *)
(*   reader     the function that reads the stream                         *)
(*   eof        the stream has ended: nothing more is written to it        *)
(***************************************************************************)
VARIABLES sim, before, apdu, response, raised, last_put, followed, hw_cycle,
          tpc, tcmd, tloc, tsent, hw_dispatched, inc_accepted,
          variant, apc, powered, req, reply, was_powered, touched,
          lock, sock, backend_up, disturbed, note, last_exchange, survived,
          late, wire, rx_pc, rx_data, rx_length, decoded, sent, reader, eof

engine_vars == <<before, apdu, response, raised, last_put, followed, hw_cycle>>
server_vars == <<tpc, tcmd, tloc, tsent, hw_dispatched, inc_accepted>>
bridge_vars == <<variant, apc, powered, req, reply, was_powered, touched,
                 lock, sock, backend_up, disturbed, note, last_exchange,
                 survived, late>>

frame_vars == <<wire, rx_pc, rx_data, rx_length, decoded, sent, reader, eof>>

vars == <<sim, engine_vars, server_vars, bridge_vars, frame_vars>>

(***************************************************************************)
(* Commands sent to the engine.                                            *)
(***************************************************************************)
\* build_select_apdu and build_apdu of the test clients.
build_select_apdu(aid) == <<\h00, \hA4, \h04, \h00, Len(aid)>> \o aid
build_apdu(cla, ins, p1, p2, data) ==
  <<cla, ins, p1, p2>> \o (IF data # <<>> THEN <<Len(data)>> \o data ELSE <<>>)

\* An AID no applet is installed under.
AID_OTHER == <<\hA0, 0, 0, 0, 3>>

\* Data fields stored, echoed or offered as a PIN.
DATA_HI == <<72, 105>>
DATA_HELLO == <<72, 101, 108, 108, 111>>
PIN_0000 == <<48, 48, 48, 48>>

ShortCommands == { <<>>, <<\h80>>, <<\h80, \h03, 0>> }

SelectCommands ==
  { build_select_apdu(AID_HELLOWORLD), build_select_apdu(AID_COUNTER),
    build_select_apdu(AID_OTHER),
    <<\h00, \hA4, \h04, \h00>>, <<\h00, \hA4, \h04, \h00, 7, \hF0, 0>> }

\* PUT_DATA announcing five data bytes and carrying two.
PUT_DATA_TRUNCATED == <<\h80, \h03, 0, 0, 5>> \o DATA_HI

HelloWorldCommands ==
  { build_apdu(\h80, \h00, 0, 0, <<>>),
    build_apdu(\h80, \h01, 0, 0, DATA_HI),
    build_apdu(\h80, \h02, 0, 0, <<>>),
    build_apdu(\h80, \h03, 0, 0, DATA_HI), build_apdu(\h80, \h03, 0, 0, DATA_HELLO),
    build_apdu(\h80, \h03, 0, 0, <<>>),
    build_apdu(\h80, \h20, 0, 0, PIN_1234), build_apdu(\h80, \h20, 0, 0, PIN_0000),
    <<\h80, \hF0, 0, 0, 8>>,
    build_apdu(\h80, \hFF, 0, 0, <<>>),
    PUT_DATA_TRUNCATED }

CounterCommands ==
  { <<\h80, \h10, 0, 0, 4>>,
    <<\h80, \h11, 0, 0>>, <<\h80, \h11, 255, 0, 4>>,
    <<\h80, \h12, 5, 0, 4>>,
    <<\h80, \h13, 0, 0>>,
    build_apdu(\h80, \h14, 0, 0, <<\hFF, \hFF, \hFF, \hFF>>),
    build_apdu(\h80, \h14, 0, 0, <<0, 0, 0, 3>>),
    build_apdu(\h80, \h14, 0, 0, <<0, 3>>),
    build_apdu(\h80, \h15, 1, 0, <<0, 0, 0, 4>>),
    build_apdu(\h80, \h15, 0, 0, <<0, 0, 0, 4>>),
    <<\h80, \h16, 0, 0, 11>>,
    build_apdu(\h80, \h17, 0, 0, <<\hFF, \hFF>>),
    build_apdu(\h80, \h17, 0, 0, <<>>),
    build_apdu(\h80, \h18, 0, 0, <<0, 2>>) }

OtherCommands == { <<\h00, \hC0, 0, 0, 0>>, <<\hFF, \h00, 0, 0>> }

\* The end-to-end sequence: SELECT HelloWorld, HELLO, VERIFY PIN "1234",
\* PUT_DATA "Hello", GET_DATA.
EndToEnd ==
  << build_select_apdu(AID_HELLOWORLD),
     build_apdu(\h80, \h00, 0, 0, <<>>),
     build_apdu(\h80, \h20, 0, 0, PIN_1234),
     build_apdu(\h80, \h03, 0, 0, DATA_HELLO),
     build_apdu(\h80, \h02, 0, 0, <<>>) >>

Commands ==
  ShortCommands \cup SelectCommands \cup HelloWorldCommands \cup CounterCommands
    \cup OtherCommands

(***************************************************************************)
(* How process_apdu routes a command in simulator s.                       *)
(***************************************************************************)
IsSelect(s, cmd) == Len(cmd) >= 4 /\ cmd[2] = \hA4
IsGetResponse(s, cmd) == Len(cmd) >= 4 /\ cmd[2] = \hC0
ToApplet(s, cmd, aid) ==
  /\ Len(cmd) >= 4
  /\ cmd[2] # \hA4
  /\ cmd[2] # \hC0
  /\ cmd[1] = \h80
  /\ s.selected_aid = Some(aid)
ToHelloWorld(s, cmd) == ToApplet(s, cmd, AID_HELLOWORLD)
ToCounter(s, cmd) == ToApplet(s, cmd, AID_COUNTER)

(***************************************************************************)
(* The parts of the state a specification does not run.                    *)
(***************************************************************************)
Clients == 1 .. NClients
Adapters == 1 .. NAdapters

VPCD_PROXY == "vpcd-proxy.py"
VPCD_JCARDSIM_PROXY == "vpcd-jcardsim-proxy.py"
PCSC_BRIDGE == "pcsc-bridge.py"
Variants == { VPCD_PROXY, VPCD_JCARDSIM_PROXY, PCSC_BRIDGE }

\* The locals of a _handle_client thread before it has received anything.
NoLocals == [count |-> 0, new_val |-> PyInt(0, 0), resp |-> <<>>]

EngineIdle ==
  /\ before = SimInit
  /\ apdu = None
  /\ response = <<>>
  /\ raised = FALSE
  /\ last_put = None
  /\ followed = 0
  /\ hw_cycle = "plain"

ServerIdle ==
  /\ tpc = [t \in Clients |-> "closed"]
  /\ tcmd = [t \in Clients |-> <<>>]
  /\ tloc = [t \in Clients |-> NoLocals]
  /\ tsent = [t \in Clients |-> 0]
  /\ hw_dispatched = 0
  /\ inc_accepted = 0

\* No frame has been written to the stream, and the reader waits for the
\* first length.
\* The readers of a framed stream: _recv_exact of the socket server and of
\* the backend clients, and send_apdu_to_jcardsim of vicc-jcardsim.py.
RECV_EXACT == "_recv_exact"
SEND_APDU_TO_JCARDSIM == "send_apdu_to_jcardsim"
Readers == { RECV_EXACT, SEND_APDU_TO_JCARDSIM }

FrameIdle ==
  /\ wire = <<>>
  /\ rx_pc = "length"
  /\ rx_data = <<>>
  /\ rx_length = 0
  /\ decoded = <<>>
  /\ sent = <<>>
  /\ reader = RECV_EXACT
  /\ eof = FALSE

\* What a socket in state s still holds of the unread response l: closing
\* the socket discards it.
unread(s, l) == IF s \in { "open", "lost" } THEN l ELSE None

\* The note about a frame when nothing has happened to it.
NoNote == [cold |-> FALSE, calm |-> TRUE, got |-> None, own |-> None]

BridgeIdle ==
  /\ apc = [a \in Adapters |-> "off"]
  /\ powered = [a \in Adapters |-> FALSE]
  /\ req = [a \in Adapters |-> None]
  /\ reply = [a \in Adapters |-> None]
  /\ was_powered = [a \in Adapters |-> FALSE]
  /\ touched = [a \in Adapters |-> FALSE]
  /\ lock = 0
  /\ sock = "none"
  /\ backend_up = TRUE
  /\ disturbed = FALSE
  /\ note = [a \in Adapters |-> NoNote]
  /\ last_exchange = "none"
  /\ survived = {}
  /\ late = None

(***************************************************************************)
(* The engine on its own: one client, one command at a time.               *)
(***************************************************************************)
Init ==
  /\ sim = SimInit
  /\ EngineIdle
  /\ ServerIdle
  /\ variant = VPCD_PROXY
  /\ BridgeIdle
  /\ FrameIdle

\* Where HelloWorld stands after a call that took the simulator from s to
\* s2, when it stood at c before.
NextCycle(c, s, s2, cmd, resp) ==
  LET was == s.selected_aid = Some(AID_HELLOWORLD)
      is == s2.selected_aid = Some(AID_HELLOWORLD)
  IN  IF is /\ ~was THEN (IF c = "away" THEN "back" ELSE "plain")
      ELSE IF was /\ ~is
           THEN (IF s2.selected_aid = Some(AID_COUNTER) /\ s.hw_pin_validated
                 THEN "away" ELSE "plain")
      ELSE IF c = "back" /\ ToHelloWorld(s, cmd) /\ cmd[2] = \h20 /\ resp = SW_OK
           THEN "plain"
      ELSE c

\* One call of process_apdu, while the two counts together stay within cap.
Dispatch(cmd, cap) ==
  LET r == process_apdu(sim, cmd)
  IN  /\ r.sim.hw_usage_count + r.sim.counter_op_count <= cap
      /\ sim' = r.sim
      /\ before' = sim
      /\ apdu' = Some(cmd)
      /\ response' = r.resp
      /\ raised' = r.exc
      /\ last_put' = IF ToHelloWorld(sim, cmd) /\ cmd[2] = \h03 /\ ~r.exc /\ r.resp = SW_OK
                     THEN Some(apdu_data(cmd))
                     ELSE last_put
      /\ followed' = IF followed \in 0 .. Len(EndToEnd) - 1 /\ cmd = EndToEnd[followed + 1]
                     THEN followed + 1
                     ELSE -1
      /\ hw_cycle' = NextCycle(hw_cycle, sim, r.sim, cmd, r.resp)
      /\ UNCHANGED <<server_vars, bridge_vars, frame_vars>>

\* One call of process_apdu on an engine started from SimInit.
ProcessApdu(cmd) == Dispatch(cmd, MaxOps)

Next == \E cmd \in Commands : ProcessApdu(cmd)

Spec == Init /\ [][Next]_vars

(***************************************************************************)
(* The engine late in a long run.  hw_usage_count and counter_op_count are *)
(* Python integers that only grow, by one per applet command, whatever the *)
(* command: after FIELD_MAX - 1 commands to one applet, that applet still  *)
(* selected, its count stands one short of the largest value the two-byte  *)
(* field of GET STATUS or GET_INFO holds.                                  *)
(***************************************************************************)
FIELD_MAX == 65535

\* How many applet commands a late run goes on for.
MaxLateOps == 3

LongRunStates ==
  { [SimInit EXCEPT !.selected_aid = Some(AID_HELLOWORLD),
                    !.hw_usage_count = FIELD_MAX - 1],
    [SimInit EXCEPT !.selected_aid = Some(AID_COUNTER),
                    !.counter_op_count = FIELD_MAX - 1] }

LongRunInit ==
  /\ sim \in LongRunStates
  /\ EngineIdle
  /\ ServerIdle
  /\ variant = VPCD_PROXY
  /\ BridgeIdle
  /\ FrameIdle

\* One call of process_apdu late in a long run.
ProcessApduLate(cmd) == Dispatch(cmd, FIELD_MAX - 1 + MaxLateOps)

LongRunNext == \E cmd \in Commands : ProcessApduLate(cmd)

LongRunSpec == LongRunInit /\ [][LongRunNext]_vars

(***************************************************************************)
(* The engine offered SELECT commands with the longest data fields one     *)
(* length byte can announce, besides the commands of Spec.                 *)
(***************************************************************************)
\* SELECT with a data field of n bytes.
build_long_select(n) == build_select_apdu([i \in 1 .. n |-> \hA0])

LongSelects == { build_long_select(n) : n \in MaxAid - 1 .. MaxAid }

\* One call of process_apdu with any of these commands.
ProcessAnyApdu(cmd) == Dispatch(cmd, MaxSelectOps)

SelectNext == \E cmd \in Commands \cup LongSelects : ProcessAnyApdu(cmd)

SelectSpec == Init /\ [][SelectNext]_vars

(***************************************************************************)
(* The socket server: SocketServer.start gives every client its own        *)
(* _handle_client thread, and every thread calls process_apdu of the one   *)
(* shared simulator.  Nothing is locked, so the threads interleave between *)
(* any two accesses of a simulator attribute.  The steps below are the     *)
(* attribute reads and writes of process_apdu, _process_helloworld and     *)
(* _process_counter for SELECT, HELLO and INCREMENT.                       *)
(***************************************************************************)
HELLO == <<\h80, \h00, 0, 0>>
INCREMENT(p1) == <<\h80, \h11, p1, 0>>
DECREMENT(p1) == <<\h80, \h12, p1, 0>>

\* The payloads of frames too short for a command: 0 and 3 bytes.
ShortFrames == { <<>>, <<\h80, \h03, 0>> }

ServerCommands ==
  { build_select_apdu(AID_HELLOWORLD), build_select_apdu(AID_COUNTER),
    HELLO, INCREMENT(0), INCREMENT(2), DECREMENT(0) } \cup ShortFrames

\* process_apdu reaches "if cla == 0x80" and finds it true.
Proprietary(cmd) ==
  /\ Len(cmd) >= 4
  /\ cmd[2] # \hA4
  /\ cmd[2] # \hC0
  /\ cmd[1] = \h80

\* Thread t moves to label pc, with locals loc.
Goto(t, pc, loc) ==
  /\ tpc' = [tpc EXCEPT ![t] = pc]
  /\ tloc' = [tloc EXCEPT ![t] = loc]

\* SocketServer.start: accept, and start the thread.
Accept(t) ==
  /\ tpc[t] = "closed"
  /\ Goto(t, "recv", NoLocals)
  /\ UNCHANGED <<sim, engine_vars, tcmd, tsent, hw_dispatched, inc_accepted, bridge_vars, frame_vars>>

\* _handle_client, "apdu = self._recv_exact(client, length); if not apdu:
\* break": _recv_exact(client, 0) returns b'', which is false.
handle_client_breaks(cmd) == cmd = <<>>

\* _handle_client: a frame with a command arrives.
RecvApdu(t, cmd) ==
  /\ tpc[t] = "recv"
  /\ tsent[t] < MaxFrames
  /\ tcmd' = [tcmd EXCEPT ![t] = cmd]
  /\ tsent' = [tsent EXCEPT ![t] = @ + 1]
  /\ IF handle_client_breaks(cmd) THEN Goto(t, "closed", NoLocals)
                                  ELSE Goto(t, "process_apdu", NoLocals)
  /\ UNCHANGED <<sim, engine_vars, hw_dispatched, inc_accepted, bridge_vars, frame_vars>>

\* _handle_client: the client closed its connection.
ClientCloses(t) ==
  /\ tpc[t] = "recv"
  /\ Goto(t, "closed", tloc[t])
  /\ UNCHANGED <<sim, engine_vars, tcmd, tsent, hw_dispatched, inc_accepted, bridge_vars, frame_vars>>

\* process_apdu of a command that is not for an applet handler: it reads no
\* simulator attribute and writes at most selected_aid, once.
ProcessDirect(t) ==
  LET r == process_apdu(sim, tcmd[t])
  IN  /\ tpc[t] = "process_apdu"
      /\ ~Proprietary(tcmd[t])
      /\ sim' = r.sim
      /\ IF r.exc THEN Goto(t, "closed", tloc[t])
                  ELSE Goto(t, "send", [tloc[t] EXCEPT !.resp = r.resp])
      /\ UNCHANGED <<engine_vars, tcmd, tsent, hw_dispatched, inc_accepted, bridge_vars, frame_vars>>

\* process_apdu: "if self.selected_aid == self.AID_HELLOWORLD".
RouteHelloWorld(t) ==
  /\ tpc[t] = "process_apdu"
  /\ Proprietary(tcmd[t])
  /\ IF sim.selected_aid = Some(AID_HELLOWORLD)
     THEN /\ Goto(t, "hw_load", tloc[t])
          /\ hw_dispatched' = hw_dispatched + 1
     ELSE /\ Goto(t, "route_counter", tloc[t])
          /\ UNCHANGED hw_dispatched
  /\ UNCHANGED <<sim, engine_vars, tcmd, tsent, inc_accepted, bridge_vars, frame_vars>>

\* process_apdu: "elif self.selected_aid == self.AID_COUNTER", else 6D00.
RouteCounter(t) ==
  /\ tpc[t] = "route_counter"
  /\ IF sim.selected_aid = Some(AID_COUNTER)
     THEN Goto(t, "op_load", tloc[t])
     ELSE Goto(t, "send", [tloc[t] EXCEPT !.resp = SW_INS_NOT_SUPPORTED])
  /\ UNCHANGED <<sim, engine_vars, tcmd, tsent, hw_dispatched, inc_accepted, bridge_vars, frame_vars>>

\* _process_helloworld, "self.hw_usage_count += 1": the read.
HwLoad(t) ==
  /\ tpc[t] = "hw_load"
  /\ Goto(t, "hw_store", [tloc[t] EXCEPT !.count = sim.hw_usage_count])
  /\ UNCHANGED <<sim, engine_vars, tcmd, tsent, hw_dispatched, inc_accepted, bridge_vars, frame_vars>>

\* _process_helloworld, "self.hw_usage_count += 1": the write, and then the
\* branch of the instruction (HELLO and an unknown instruction touch no
\* simulator attribute).
HwStore(t) ==
  LET cmd == tcmd[t]
      r == process_helloworld(sim, cmd[2], cmd[3], cmd[4], apdu_data(cmd))
  IN  /\ tpc[t] = "hw_store"
      /\ sim' = [sim EXCEPT !.hw_usage_count = tloc[t].count + 1]
      /\ Goto(t, "send", [tloc[t] EXCEPT !.resp = r.resp])
      /\ UNCHANGED <<engine_vars, tcmd, tsent, hw_dispatched, inc_accepted, bridge_vars, frame_vars>>

\* _process_counter, "self.counter_op_count += 1": the read.
OpLoad(t) ==
  /\ tpc[t] = "op_load"
  /\ Goto(t, "op_store", [tloc[t] EXCEPT !.count = sim.counter_op_count])
  /\ UNCHANGED <<sim, engine_vars, tcmd, tsent, hw_dispatched, inc_accepted, bridge_vars, frame_vars>>

\* _process_counter, "self.counter_op_count += 1": the write; INCREMENT and
\* DECREMENT go on, an unknown instruction returns 6D00.
OpStore(t) ==
  LET cmd == tcmd[t]
      r == process_counter(sim, cmd[2], cmd[3], cmd[4], apdu_data(cmd))
  IN  /\ tpc[t] = "op_store"
      /\ sim' = [sim EXCEPT !.counter_op_count = tloc[t].count + 1]
      /\ IF cmd[2] = \h11
         THEN Goto(t, "inc_load", tloc[t])
         ELSE IF cmd[2] = \h12
         THEN Goto(t, "dec_check", tloc[t])
         ELSE Goto(t, "send", [tloc[t] EXCEPT !.resp = r.resp])
      /\ UNCHANGED <<engine_vars, tcmd, tsent, hw_dispatched, inc_accepted, bridge_vars, frame_vars>>

\* INCREMENT: "new_val = self.counter_value + inc".
IncLoad(t) ==
  LET p1 == tcmd[t][3]
      inc == IF p1 > 0 THEN p1 ELSE 1
  IN  /\ tpc[t] = "inc_load"
      /\ Goto(t, "inc_store", [tloc[t] EXCEPT !.new_val = IntAdd(sim.counter_value, inc)])
      /\ UNCHANGED <<sim, engine_vars, tcmd, tsent, hw_dispatched, inc_accepted, bridge_vars, frame_vars>>

\* INCREMENT: the two checks of new_val, then "self.counter_value = new_val".
IncStore(t) ==
  LET p1 == tcmd[t][3]
      inc == IF p1 > 0 THEN p1 ELSE 1
  IN  /\ tpc[t] = "inc_store"
      /\ IF counter_over(sim, tloc[t].new_val)
         THEN /\ Goto(t, "send", [tloc[t] EXCEPT !.resp = SW_CONDITIONS_NOT_SATISFIED])
              /\ UNCHANGED <<sim, inc_accepted>>
         ELSE /\ sim' = [sim EXCEPT !.counter_value = tloc[t].new_val]
              /\ inc_accepted' = inc_accepted + inc
              /\ Goto(t, "inc_reply", tloc[t])
      /\ UNCHANGED <<engine_vars, tcmd, tsent, hw_dispatched, bridge_vars, frame_vars>>

\* INCREMENT: "return counter_bytes() + 9000" reads counter_value again.
IncReply(t) ==
  LET r == counter_reply(sim)
  IN  /\ tpc[t] = "inc_reply"
      /\ IF r.exc THEN Goto(t, "closed", tloc[t])
                  ELSE Goto(t, "send", [tloc[t] EXCEPT !.resp = r.resp])
      /\ UNCHANGED <<sim, engine_vars, tcmd, tsent, hw_dispatched, inc_accepted, bridge_vars, frame_vars>>

\* DECREMENT: "if self.counter_value < dec" reads counter_value.
DecCheck(t) ==
  LET p1 == tcmd[t][3]
      dec == IF p1 > 0 THEN p1 ELSE 1
  IN  /\ tpc[t] = "dec_check"
      /\ IF IntLtSmall(sim.counter_value, dec)
         THEN Goto(t, "send", [tloc[t] EXCEPT !.resp = SW_CONDITIONS_NOT_SATISFIED])
         ELSE Goto(t, "dec_store", tloc[t])
      /\ UNCHANGED <<sim, engine_vars, tcmd, tsent, hw_dispatched, inc_accepted, bridge_vars, frame_vars>>

\* DECREMENT: "self.counter_value -= dec" reads counter_value again and
\* writes it, and "return counter_bytes() + 9000" encodes what it wrote;
\* to_bytes raising ends the connection in _handle_client.
DecStore(t) ==
  LET p1 == tcmd[t][3]
      dec == IF p1 > 0 THEN p1 ELSE 1
      r == counter_reply([sim EXCEPT !.counter_value = IntSub(@, dec)])
  IN  /\ tpc[t] = "dec_store"
      /\ sim' = r.sim
      /\ inc_accepted' = inc_accepted - dec
      /\ IF r.exc THEN Goto(t, "closed", tloc[t])
                  ELSE Goto(t, "send", [tloc[t] EXCEPT !.resp = r.resp])
      /\ UNCHANGED <<engine_vars, tcmd, tsent, hw_dispatched, bridge_vars, frame_vars>>

\* _handle_client: the response goes back to the client.
SendResponse(t) ==
  /\ tpc[t] = "send"
  /\ Goto(t, "recv", tloc[t])
  /\ UNCHANGED <<sim, engine_vars, tcmd, tsent, hw_dispatched, inc_accepted, bridge_vars, frame_vars>>

ServerNext ==
  \E t \in Clients :
    \/ Accept(t)
    \/ \E cmd \in ServerCommands : RecvApdu(t, cmd)
    \/ ClientCloses(t)
    \/ ProcessDirect(t)
    \/ RouteHelloWorld(t)
    \/ RouteCounter(t)
    \/ HwLoad(t)
    \/ HwStore(t)
    \/ OpLoad(t)
    \/ OpStore(t)
    \/ IncLoad(t)
    \/ IncStore(t)
    \/ IncReply(t)
    \/ DecCheck(t)
    \/ DecStore(t)
    \/ SendResponse(t)

ServerSpec == Init /\ [][ServerNext]_vars

(***************************************************************************)
(* The bridges vpcd-proxy.py and vpcd-jcardsim-proxy.py: one handler       *)
(* thread per reader-driver connection, all handlers sharing one backend   *)
(* client (JCardSimConnection, JCardSimClient).  The bridge pcsc-bridge.py *)
(* has no threads: VPCDServer.start serves one connection after the other, *)
(* and powered is an attribute of the server, here powered[a] with the     *)
(* same value for every a.  A run is one of the three scripts, from its    *)
(* start until it is shut down.                                            *)
(*                                                                         *)
(* sock is "none" (self.socket is None), "open" (connected), "fresh"       *)
(* (created, but its connect failed) or "lost" (the peer has closed it).   *)
(***************************************************************************)
SW_UNKNOWN == <<\h6F, \h00>>
SW_NOT_POWERED == <<\h69, \h00>>

DEFAULT_ATR(v) ==
  CASE v = VPCD_PROXY -> <<\h3B, \h80, \h01>>
    [] v = VPCD_JCARDSIM_PROXY -> <<\h3B, \h00>>
    [] v = PCSC_BRIDGE ->
         <<\h3B, \h8F, \h80, \h01, \h80, \h4F, \h0C, \hA0, 0, 0,
           \h03, \h06, \h03, 0, \h01, 0, 0, 0, 0, \h6A>>

CYCLIC_POWER_OFF == 0
CYCLIC_RESET == 1
CYCLIC_GET_ATR == 2
CYCLIC_APDU == 3
CYCLIC_CARD_PRESENT == 4

VPCD_CTRL_OFF == 0
VPCD_CTRL_ON == 1
VPCD_CTRL_RESET == 2
VPCD_CTRL_ATR == 4

\* The command the reader driver has the bridge forward.
ApduPayloads == { HELLO }

\* What the backend makes of one exchange: a response frame with these
\* bytes, or the stream closed before the length, closed inside the payload,
\* recv timing out, or send or recv raising another error.
BackendResponses == { SW_OK, <<\h90>>, <<>> }
BackendFailures == { "closed_len", "closed_payload", "timeout", "error" }

\* A lock that lets every caller in at once.
lock_ignored(l) == TRUE

\* "with self.lock" lets the caller in when nobody holds the lock.
lock_free(l) == l = 0

\* _handle_apdu of VPCDHandler: "if not self.powered_on" refuses.
handle_apdu_refuses(powered_on) == ~powered_on

\* Frame f is an APDU request for script v.
IsApduFrame(v, f) ==
  CASE v = VPCD_PROXY -> Len(f) >= 1 /\ f[1] = CYCLIC_APDU
    [] v = VPCD_JCARDSIM_PROXY -> Len(f) > 1
    [] v = PCSC_BRIDGE ->
         f[1] \notin { VPCD_CTRL_OFF, VPCD_CTRL_ON, VPCD_CTRL_RESET, VPCD_CTRL_ATR }

\* The callers whose exchange is in flight: frame sent, response not read.
InFlight == { a \in Adapters : apc[a] = "recv" }

BridgeInit ==
  /\ sim = SimInit
  /\ EngineIdle
  /\ ServerIdle
  /\ variant \in Variants
  /\ BridgeIdle
  /\ FrameIdle

\* Handler a reads frame f.
Take(a, f) ==
  /\ apc[a] = "read"
  /\ req' = [req EXCEPT ![a] = Some(f)]
  /\ was_powered' = [was_powered EXCEPT ![a] = powered[a]]
  /\ touched' = [touched EXCEPT ![a] = FALSE]
  /\ note' = [note EXCEPT ![a] =
                IF IsApduFrame(variant, f)
                THEN [cold |-> sock # "open", calm |-> backend_up, got |-> None,
                      own |-> None]
                ELSE NoNote]

\* Handler a goes on to label pc without a reply yet.
Continue(a, pc) ==
  /\ apc' = [apc EXCEPT ![a] = pc]
  /\ reply' = [reply EXCEPT ![a] = None]

\* Handler a sends reply r and waits for the next frame.
Reply(a, r) ==
  /\ apc' = [apc EXCEPT ![a] = "read"]
  /\ reply' = [reply EXCEPT ![a] = Some(r)]

\* Handler a is done with the frame and sends nothing.
NoReply(a) ==
  /\ apc' = [apc EXCEPT ![a] = "read"]
  /\ reply' = [reply EXCEPT ![a] = None]

\* A connect or disconnect by a closes or replaces the socket.
Disturbs(a) == disturbed \/ InFlight \ {a} # {}

\* main / VPCDServer.start: accept, and start the handler thread; in
\* pcsc-bridge.py, accept when no connection is being served, and call
\* _handle_client, which leaves self.powered as it is.
AcceptDriver(a) ==
  /\ apc[a] = "off"
  /\ variant = PCSC_BRIDGE => \A b \in Adapters : apc[b] = "off"
  /\ apc' = [apc EXCEPT ![a] = "read"]
  /\ powered' = IF variant = PCSC_BRIDGE THEN powered
                ELSE [powered EXCEPT ![a] = FALSE]
  /\ req' = [req EXCEPT ![a] = None]
  /\ reply' = [reply EXCEPT ![a] = None]
  /\ was_powered' = [was_powered EXCEPT ![a] = FALSE]
  /\ touched' = [touched EXCEPT ![a] = FALSE]
  /\ UNCHANGED <<survived, late>>
  /\ UNCHANGED <<sim, engine_vars, server_vars, frame_vars, variant, lock, sock, backend_up, disturbed, note, last_exchange>>

\* A handler that disconnects the backend client when it ends.
handler_finally_disconnects(s) == "none"

\* The "finally" of a handler closes the socket of the reader driver, and
\* leaves the client's socket s as it is.
handler_finally(s) == s

\* The reader driver closes its connection: the handler ends, and its
\* locals with it.
DriverCloses(a) ==
  /\ apc[a] \in { "read", "absorb" }
  /\ apc' = [apc EXCEPT ![a] = "off"]
  /\ powered' = IF variant = PCSC_BRIDGE THEN powered
                ELSE [powered EXCEPT ![a] = FALSE]
  /\ req' = [req EXCEPT ![a] = None]
  /\ reply' = [reply EXCEPT ![a] = None]
  /\ was_powered' = [was_powered EXCEPT ![a] = FALSE]
  /\ touched' = [touched EXCEPT ![a] = FALSE]
  /\ note' = [note EXCEPT ![a] = NoNote]
  /\ sock' = handler_finally(sock)
  /\ survived' = survived \cup (InFlight \ {a})
  /\ late' = unread(handler_finally(sock), late)
  /\ UNCHANGED <<sim, engine_vars, server_vars, frame_vars, variant, lock,
                 backend_up, disturbed, last_exchange>>

\* handle_vpcd_client, CYCLIC_POWER_OFF.
ProxyPowerOff(a) ==
  /\ variant = VPCD_PROXY
  /\ Take(a, <<CYCLIC_POWER_OFF>>)
  /\ powered' = [powered EXCEPT ![a] = FALSE]
  /\ Continue(a, "disconnect_lock")
  /\ UNCHANGED <<survived, late>>
  /\ UNCHANGED <<sim, engine_vars, server_vars, frame_vars, variant, lock, sock, backend_up, disturbed, last_exchange>>

\* handle_vpcd_client, CYCLIC_RESET.
ProxyReset(a) ==
  /\ variant = VPCD_PROXY
  /\ Take(a, <<CYCLIC_RESET>>)
  /\ powered' = [powered EXCEPT ![a] = TRUE]
  /\ Continue(a, "connect_lock")
  /\ UNCHANGED <<survived, late>>
  /\ UNCHANGED <<sim, engine_vars, server_vars, frame_vars, variant, lock, sock, backend_up, disturbed, last_exchange>>

\* handle_vpcd_client, CYCLIC_GET_ATR.
ProxyGetAtr(a) ==
  /\ variant = VPCD_PROXY
  /\ Take(a, <<CYCLIC_GET_ATR>>)
  /\ powered' = [powered EXCEPT ![a] = TRUE]
  /\ IF powered[a] THEN Reply(a, DEFAULT_ATR(variant))
                   ELSE Continue(a, "connect_lock")
  /\ UNCHANGED <<survived, late>>
  /\ UNCHANGED <<sim, engine_vars, server_vars, frame_vars, variant, lock, sock, backend_up, disturbed, last_exchange>>

\* handle_vpcd_client, CYCLIC_APDU.
ProxyApdu(a, c) ==
  /\ variant = VPCD_PROXY
  /\ Take(a, <<CYCLIC_APDU>> \o c)
  /\ powered' = [powered EXCEPT ![a] = TRUE]
  /\ IF powered[a] THEN Continue(a, "send_lock")
                   ELSE Continue(a, "connect_lock")
  /\ UNCHANGED <<survived, late>>
  /\ UNCHANGED <<sim, engine_vars, server_vars, frame_vars, variant, lock, sock, backend_up, disturbed, last_exchange>>

\* handle_vpcd_client: a frame of length 0, CYCLIC_CARD_PRESENT, or a
\* control byte it does not know (FF).
ProxyOther(a, f) ==
  /\ variant = VPCD_PROXY
  /\ Take(a, f)
  /\ IF f = <<>> THEN NoReply(a)
     ELSE IF f[1] = CYCLIC_CARD_PRESENT THEN Reply(a, <<0>>)
     ELSE Reply(a, <<1>>)
  /\ UNCHANGED <<survived, late>>
  /\ UNCHANGED <<sim, engine_vars, server_vars, frame_vars, variant, powered, lock, sock,
                 backend_up, disturbed, last_exchange>>

\* VPCDHandler.handle and _handle_control: a frame of length 1 or 0.
HandlerControl(a, f) ==
  /\ variant = VPCD_JCARDSIM_PROXY
  /\ Len(f) <= 1
  /\ Take(a, f)
  /\ powered' = [powered EXCEPT ![a] =
                   IF f = <<VPCD_CTRL_OFF>> THEN FALSE
                   ELSE IF f \in { <<VPCD_CTRL_ON>>, <<VPCD_CTRL_RESET>> } THEN TRUE
                   ELSE @]
  /\ IF f = <<VPCD_CTRL_ATR>> THEN Reply(a, DEFAULT_ATR(variant)) ELSE NoReply(a)
  /\ UNCHANGED <<survived, late>>
  /\ UNCHANGED <<sim, engine_vars, server_vars, frame_vars, variant, lock, sock, backend_up, disturbed, last_exchange>>

\* VPCDHandler.handle and _handle_apdu: a frame longer than 1.
HandlerApdu(a, c) ==
  /\ variant = VPCD_JCARDSIM_PROXY
  /\ Len(c) > 1
  /\ Take(a, c)
  /\ IF handle_apdu_refuses(powered[a]) THEN Reply(a, SW_NOT_POWERED)
                                        ELSE Continue(a, "send_lock")
  /\ UNCHANGED <<survived, late>>
  /\ UNCHANGED <<sim, engine_vars, server_vars, frame_vars, variant, powered, lock, sock,
                 backend_up, disturbed, last_exchange>>

\* A socket without a timeout: recv blocks for as long as the peer is silent.
recv_blocks(why) == why \in BackendFailures \ { "timeout" }

\* connect: self.socket.settimeout(10).  A send_apdu that gets no response
\* ends when the peer closes the stream, when the socket fails, or, the
\* peer silent, when recv raises socket.timeout.
recv_ends_with(why) == why \in BackendFailures

\* "with self.lock" of connect, disconnect and send_apdu.
AcquireLock(a) ==
  /\ apc[a] \in { "connect_lock", "disconnect_lock", "send_lock" }
  /\ lock_free(lock)
  /\ lock' = a
  /\ apc' = [apc EXCEPT ![a] = CASE @ = "connect_lock" -> "connect"
                                 [] @ = "disconnect_lock" -> "disconnect"
                                 [] @ = "send_lock" -> "send"]
  /\ last_exchange' = "none"
  /\ UNCHANGED <<survived, late>>
  /\ UNCHANGED <<sim, engine_vars, server_vars, frame_vars, variant, powered, req, reply,
                 was_powered, touched, sock, backend_up, disturbed, note>>

\* A CYCLIC_APDU branch that answers a failed connect with the error code 01
\* of the CYCLIC_RESET branch.
apdu_after_connect_error_code(up) == IF up THEN None ELSE Some(<<1>>)

\* handle_vpcd_client, CYCLIC_APDU: the response it holds after
\* jcardsim.connect(), None when connect returned and 6F 00 when it raised.
apdu_after_connect(up) == IF up THEN None ELSE Some(SW_UNKNOWN)

\* JCardSimConnection.connect inside the lock, and what handle_vpcd_client
\* does with its outcome.
ProxyConnect(a) ==
  LET cmd == req[a][1][1]
  IN  /\ apc[a] = "connect"
      /\ sock' = IF backend_up THEN "open" ELSE "fresh"
      /\ lock' = 0
      /\ touched' = [touched EXCEPT ![a] = TRUE]
      /\ disturbed' = Disturbs(a)
      /\ IF cmd = CYCLIC_GET_ATR THEN Reply(a, DEFAULT_ATR(variant))
         ELSE IF cmd = CYCLIC_RESET
              THEN Reply(a, IF backend_up THEN DEFAULT_ATR(variant) ELSE <<>>)
         ELSE LET resp == apdu_after_connect(backend_up)
              IN  IF resp = None THEN Continue(a, "send_lock")
                  ELSE Reply(a, resp[1])
      /\ UNCHANGED <<survived, late>>
      /\ UNCHANGED <<sim, engine_vars, server_vars, frame_vars, variant, powered, req,
                     was_powered, backend_up, note, last_exchange>>

\* JCardSimConnection.disconnect inside the lock; POWER OFF replies 00.
ProxyDisconnect(a) ==
  /\ apc[a] = "disconnect"
  /\ sock' = "none"
  /\ lock' = 0
  /\ disturbed' = Disturbs(a)
  /\ Reply(a, <<0>>)
  /\ UNCHANGED <<survived, late>>
  /\ UNCHANGED <<sim, engine_vars, server_vars, frame_vars, variant, powered, req,
                 was_powered, touched, backend_up, note, last_exchange>>

\* JCardSimConnection.send_apdu inside the lock, up to sendall.  Without a
\* socket it raises at once; sendall raises on a socket that never connected
\* and may raise on one the peer has closed.
ProxySend(a) ==
  /\ variant = VPCD_PROXY
  /\ apc[a] = "send"
  /\ touched' = [touched EXCEPT ![a] = TRUE]
  /\ \/ /\ sock \in { "open", "lost" }
        /\ Continue(a, "recv")
        /\ UNCHANGED <<lock, sock, last_exchange>>
     \/ /\ sock # "open"
        /\ sock' = "none"
        /\ lock' = 0
        /\ last_exchange' = "failed"
        /\ Reply(a, SW_UNKNOWN)
  /\ UNCHANGED <<survived, late>>
  /\ UNCHANGED <<sim, engine_vars, server_vars, frame_vars, variant, powered, req,
                 was_powered, backend_up, disturbed, note>>

\* JCardSimConnection.send_apdu inside the lock: both _recv_exact calls
\* return, and handle_vpcd_client replies.
ProxyRecv(a, r) ==
  /\ variant = VPCD_PROXY
  /\ apc[a] = "recv"
  /\ sock = "open"
  /\ lock' = 0
  /\ note' = [note EXCEPT ![a].got = Some(r), ![a].own = Some(r)]
  /\ last_exchange' = "none"
  /\ Reply(a, IF r # <<>> THEN r ELSE SW_UNKNOWN)
  /\ survived' = survived \ {a}
  /\ UNCHANGED late
  /\ UNCHANGED <<sim, engine_vars, server_vars, frame_vars, variant, powered, req,
                 was_powered, touched, sock, backend_up, disturbed>>

\* JCardSimConnection.send_apdu inside the lock: the peer closes the stream
\* (_recv_exact returns None, the socket is kept) or recv raises (the socket
\* is dropped).
ProxyRecvFails(a, why) ==
  /\ variant = VPCD_PROXY
  /\ apc[a] = "recv"
  /\ recv_ends_with(why)
  /\ sock' = IF why \in { "error", "timeout" } THEN "none" ELSE "lost"
  /\ lock' = 0
  /\ last_exchange' = "failed"
  /\ note' = [note EXCEPT ![a].calm = FALSE]
  /\ Reply(a, SW_UNKNOWN)
  /\ survived' = survived \ {a}
  /\ UNCHANGED late
  /\ UNCHANGED <<sim, engine_vars, server_vars, frame_vars, variant, powered, req,
                 was_powered, touched, backend_up, disturbed>>

\* JCardSimClient.send_apdu inside the lock, up to sendall: connect when
\* there is no socket; disconnect when sendall raises.
ClientSend(a) ==
  /\ variant = VPCD_JCARDSIM_PROXY
  /\ apc[a] = "send"
  /\ touched' = [touched EXCEPT ![a] = TRUE]
  /\ \/ /\ sock = "none"
        /\ backend_up
        /\ sock' = "open"
        /\ disturbed' = Disturbs(a)
        /\ Continue(a, "recv")
        /\ UNCHANGED <<lock, last_exchange>>
     \/ /\ sock = "none"
        /\ ~backend_up
        /\ lock' = 0
        /\ last_exchange' = "failed"
        /\ Reply(a, SW_UNKNOWN)
        /\ UNCHANGED <<sock, disturbed>>
     \/ /\ sock \in { "open", "lost" }
        /\ Continue(a, "recv")
        /\ UNCHANGED <<lock, sock, disturbed, last_exchange>>
     \/ /\ sock = "lost"
        /\ sock' = "none"
        /\ disturbed' = Disturbs(a)
        /\ lock' = 0
        /\ last_exchange' = "failed"
        /\ Reply(a, SW_UNKNOWN)
  /\ UNCHANGED <<survived, late>>
  /\ UNCHANGED <<sim, engine_vars, server_vars, frame_vars, variant, powered, req,
                 was_powered, backend_up, note>>

\* JCardSimClient.send_apdu inside the lock: both _recv_exact calls return.
ClientRecv(a, r) ==
  /\ variant = VPCD_JCARDSIM_PROXY
  /\ apc[a] = "recv"
  /\ sock = "open"
  /\ lock' = 0
  /\ note' = [note EXCEPT ![a].got = Some(r), ![a].own = Some(r)]
  /\ last_exchange' = "none"
  /\ Reply(a, IF r # <<>> THEN r ELSE SW_UNKNOWN)
  /\ survived' = survived \ {a}
  /\ UNCHANGED late
  /\ UNCHANGED <<sim, engine_vars, server_vars, frame_vars, variant, powered, req,
                 was_powered, touched, sock, backend_up, disturbed>>

\* JCardSimClient.send_apdu inside the lock: the peer closes the stream
\* before the length (ConnectionError) or recv raises, and the except branch
\* disconnects; or the peer closes it inside the payload, and the socket is
\* kept.
ClientRecvFails(a, why) ==
  /\ variant = VPCD_JCARDSIM_PROXY
  /\ apc[a] = "recv"
  /\ recv_ends_with(why)
  /\ sock' = IF why = "closed_payload" THEN "lost" ELSE "none"
  /\ disturbed' = IF why = "closed_payload" THEN disturbed ELSE Disturbs(a)
  /\ lock' = 0
  /\ last_exchange' = "failed"
  /\ note' = [note EXCEPT ![a].calm = FALSE]
  /\ Reply(a, SW_UNKNOWN)
  /\ survived' = survived \ {a}
  /\ UNCHANGED late
  /\ UNCHANGED <<sim, engine_vars, server_vars, frame_vars, variant, powered, req,
                 was_powered, touched, backend_up>>

\* The backend stops: it refuses connections and the open one is lost.
BackendDown ==
  /\ backend_up
  /\ backend_up' = FALSE
  /\ sock' = IF sock = "open" THEN "lost" ELSE sock
  /\ note' = [a \in Adapters |->
                IF apc[a] \in { "off", "read" } THEN note[a]
                ELSE [note[a] EXCEPT !.calm = FALSE]]
  /\ UNCHANGED <<survived, late>>
  /\ UNCHANGED <<sim, engine_vars, server_vars, frame_vars, variant, apc, powered, req, reply,
                 was_powered, touched, lock, disturbed, last_exchange>>

\* The backend is back.
BackendUp ==
  /\ ~backend_up
  /\ backend_up' = TRUE
  /\ UNCHANGED <<survived, late>>
  /\ UNCHANGED <<sim, engine_vars, server_vars, frame_vars, variant, apc, powered, req, reply,
                 was_powered, touched, lock, sock, disturbed, note, last_exchange>>

\* VPCDServer._handle_client reads the first byte of frame f, and the APDU
\* behind it when the byte is none of the control codes.
PcscRead(a, f) ==
  /\ variant = PCSC_BRIDGE
  /\ Take(a, f)
  /\ Continue(a, "serve")
  /\ UNCHANGED <<survived, late>>
  /\ UNCHANGED <<sim, engine_vars, server_vars, frame_vars, variant, powered, lock,
                 sock, backend_up, disturbed, last_exchange>>

\* Where VPCDServer._handle_client stands after it has served the first
\* byte of frame f as a control code.  The bytes behind it are still on the
\* driver's stream: recv(1) takes the next one, CLA, for a length, and
\* _recv_exact waits for that many bytes (CLA is 80 here: 128 bytes).
after_control(f) == IF Len(f) > 1 THEN "absorb" ELSE "read"

\* VPCDServer._handle_client serves a control byte.  power_off does nothing;
\* connect replaces the socket and does not close the one it held; reset
\* disconnects and connects.
PcscControl(a) ==
  LET cmd == req[a][1][1]
      connects == cmd \in { VPCD_CTRL_ON, VPCD_CTRL_RESET }
      on == CASE cmd = VPCD_CTRL_OFF -> FALSE
              [] cmd = VPCD_CTRL_ON -> backend_up \/ powered[a]
              [] cmd = VPCD_CTRL_RESET -> backend_up
              [] cmd = VPCD_CTRL_ATR -> powered[a]
  IN  /\ variant = PCSC_BRIDGE
      /\ apc[a] = "serve"
      /\ ~IsApduFrame(variant, req[a][1])
      /\ powered' = [b \in Adapters |-> on]
      /\ sock' = IF connects THEN (IF backend_up THEN "open" ELSE "fresh") ELSE sock
      /\ late' = IF connects THEN None ELSE late
      /\ touched' = [touched EXCEPT ![a] = connects]
      /\ last_exchange' = IF connects THEN "none" ELSE last_exchange
      /\ apc' = [apc EXCEPT ![a] = after_control(req[a][1])]
      /\ reply' = [reply EXCEPT ![a] = Some(
                     CASE cmd = VPCD_CTRL_ATR ->
                            IF powered[a]
                            THEN <<Len(DEFAULT_ATR(variant))>> \o DEFAULT_ATR(variant)
                            ELSE <<0>>
                       [] cmd = VPCD_CTRL_OFF -> <<0>>
                       [] OTHER -> IF backend_up THEN <<0>> ELSE <<1>>)]
      /\ UNCHANGED survived
      /\ UNCHANGED <<sim, engine_vars, server_vars, frame_vars, variant, req,
                     was_powered, lock, backend_up, disturbed, note>>

\* VPCDServer._recv_exact, waiting for the bytes of the length it was
\* given, takes the bytes of the driver's next frame f for part of them.
PcscAbsorb(a, f) ==
  /\ variant = PCSC_BRIDGE
  /\ apc[a] = "absorb"
  /\ Len(req[a][1]) + Len(f) <= MaxHeld
  /\ req' = [req EXCEPT ![a] = Some(req[a][1] \o f)]
  /\ UNCHANGED <<survived, late>>
  /\ UNCHANGED <<sim, engine_vars, server_vars, frame_vars, variant, apc, powered, reply,
                 was_powered, touched, lock, sock, backend_up, disturbed, note,
                 last_exchange>>

\* The responses of the backend that come after the client's timeout.
LateResponses == { SW_OK }

\* What the two _recv_exact calls of send_apdu return when the backend's
\* response to the command just sent is r and the socket holds the unread
\* response l: the first frame on the stream.
first_frame(l, r) == IF l # None THEN l[1] ELSE r

\* VPCDServer._handle_client forwards an APDU, and JCardSimClient.send_apdu
\* gets a response, the backend's response to this command being r: it
\* connects when it holds no socket, and both _recv_exact calls return.  On
\* a socket with an unread response they return that one, and r stays
\* unread behind it (on a stream the peer has closed, nothing follows).
PcscApdu(a, r) ==
  LET resp == first_frame(late, r)
  IN  /\ variant = PCSC_BRIDGE
      /\ apc[a] = "serve"
      /\ IsApduFrame(variant, req[a][1])
      /\ \/ sock = "open"
         \/ sock = "none" /\ backend_up
         \/ sock = "lost" /\ late # None
      /\ sock' = IF sock = "lost" THEN "lost" ELSE "open"
      /\ late' = IF late # None /\ sock = "open" THEN Some(r) ELSE None
      /\ touched' = [touched EXCEPT ![a] = TRUE]
      /\ note' = [note EXCEPT ![a].got = Some(resp),
                              ![a].own = IF sock = "lost" THEN None ELSE Some(r)]
      /\ last_exchange' = "none"
      /\ Reply(a, IF resp # <<>> THEN <<Len(resp)>> \o resp ELSE <<2>> \o SW_UNKNOWN)
      /\ UNCHANGED survived
  /\ UNCHANGED <<sim, engine_vars, server_vars, frame_vars, variant, powered, req,
                 was_powered, lock, backend_up, disturbed>>

\* JCardSimClient.send_apdu fails and returns None, and _handle_client
\* replies 02 6F 00.  connect fails and leaves the socket it created; sendall
\* raises on a socket that never connected, and the except branch
\* disconnects; on a connected socket the peer closes the stream or recv
\* times out (_recv_exact returns None, the socket is kept, and the
\* backend's response, when it comes after all, stays unread on it), or send
\* or recv raises another error (disconnect).
PcscApduFails(a, why) ==
  /\ variant = PCSC_BRIDGE
  /\ apc[a] = "serve"
  /\ IsApduFrame(variant, req[a][1])
  /\ recv_ends_with(why)
  /\ touched' = [touched EXCEPT ![a] = TRUE]
  /\ last_exchange' = "failed"
  /\ \/ /\ sock = "none"
        /\ ~backend_up
        /\ why = "error"
        /\ sock' = "fresh"
        /\ UNCHANGED <<note, late>>
     \/ /\ sock = "fresh"
        /\ why = "error"
        /\ sock' = "none"
        /\ UNCHANGED <<note, late>>
     \/ /\ sock = "lost"
        /\ why = "error" \/ (why = "closed_len" /\ late = None)
        /\ sock' = IF why = "error" THEN "none" ELSE "lost"
        /\ late' = None
        /\ UNCHANGED note
     \/ /\ sock = "open" \/ (sock = "none" /\ backend_up)
        /\ why = "error" \/ late = None
        /\ sock' = CASE why = "error" -> "none"
                     [] why = "timeout" -> "open"
                     [] OTHER -> "lost"
        /\ late' \in IF why = "timeout" /\ backend_up
                     THEN { None } \cup { Some(r) : r \in LateResponses }
                     ELSE { None }
        /\ note' = [note EXCEPT ![a].calm = FALSE]
  /\ Reply(a, <<2>> \o SW_UNKNOWN)
  /\ UNCHANGED survived
  /\ UNCHANGED <<sim, engine_vars, server_vars, frame_vars, variant, powered, req,
                 was_powered, lock, backend_up, disturbed>>

ProxyFrames == { <<>>, <<CYCLIC_CARD_PRESENT>>, <<\hFF>> }

\* The frames of pcsc-bridge.py: a control byte, or the length of an APDU
\* and the APDU: the payloads as they are (4 bytes) and with an Le byte
\* behind them (5 bytes).
PcscFrames ==
  { <<VPCD_CTRL_OFF>>, <<VPCD_CTRL_ON>>, <<VPCD_CTRL_RESET>>, <<VPCD_CTRL_ATR>> }
    \cup { <<Len(c) + 1>> \o c \o <<0>> : c \in ApduPayloads }
    \cup { <<Len(c)>> \o c : c \in ApduPayloads }

HandlerFrames ==
  { <<>>, <<VPCD_CTRL_OFF>>, <<VPCD_CTRL_ON>>, <<VPCD_CTRL_RESET>>,
    <<VPCD_CTRL_ATR>>, <<\hFF>> }

BridgeNext ==
  \/ \E a \in Adapters :
       \/ AcceptDriver(a)
       \/ DriverCloses(a)
       \/ ProxyPowerOff(a)
       \/ ProxyReset(a)
       \/ ProxyGetAtr(a)
       \/ \E c \in ApduPayloads : ProxyApdu(a, c)
       \/ \E f \in ProxyFrames : ProxyOther(a, f)
       \/ \E f \in HandlerFrames : HandlerControl(a, f)
       \/ \E c \in ApduPayloads : HandlerApdu(a, c)
       \/ AcquireLock(a)
       \/ ProxyConnect(a)
       \/ ProxyDisconnect(a)
       \/ ProxySend(a)
       \/ \E r \in BackendResponses : ProxyRecv(a, r)
       \/ \E why \in BackendFailures : ProxyRecvFails(a, why)
       \/ ClientSend(a)
       \/ \E r \in BackendResponses : ClientRecv(a, r)
       \/ \E why \in BackendFailures : ClientRecvFails(a, why)
       \/ \E f \in PcscFrames : PcscRead(a, f)
       \/ PcscControl(a)
       \/ \E f \in PcscFrames : PcscAbsorb(a, f)
       \/ \E r \in BackendResponses : PcscApdu(a, r)
       \/ \E why \in BackendFailures : PcscApduFails(a, why)
  \/ BackendDown
  \/ BackendUp

BridgeSpec == BridgeInit /\ [][BridgeNext]_vars

(***************************************************************************)
(* The bridges under the scheduling the code relies on.  A handler thread  *)
(* that can run its next statement runs it; a thread that waits for the    *)
(* lock gets it, the lock being released again and again; a recv that is   *)
(* left without data raises socket.timeout.  Nothing is assumed of the     *)
(* backend: it may stay silent for ever.                                   *)
(***************************************************************************)
\* The statements handler a runs by itself.
Runs(a) ==
  \/ ProxyConnect(a)
  \/ ProxyDisconnect(a)
  \/ ProxySend(a)
  \/ ClientSend(a)
  \/ PcscControl(a)

\* The recv of handler a, left without data, raises socket.timeout; in
\* pcsc-bridge.py, send_apdu fails at once without a connected socket.
TimesOut(a) ==
  \/ ProxyRecvFails(a, "timeout")
  \/ ClientRecvFails(a, "timeout")
  \/ PcscApduFails(a, "timeout")
  \/ sock # "open" /\ PcscApduFails(a, "error")

\* The recv of handler a returns at once on a socket that holds an unread
\* response.
ReadsUnread(a) == late # None /\ \E r \in BackendResponses : PcscApdu(a, r)

BridgeFairness ==
  \A a \in Adapters :
    /\ SF_vars(AcquireLock(a))
    /\ WF_vars(Runs(a))
    /\ WF_vars(TimesOut(a))
    /\ WF_vars(ReadsUnread(a))

BridgeFairSpec == BridgeSpec /\ BridgeFairness

(***************************************************************************)
(* Framing.  Both ends of a backend connection write a message as          *)
(* struct.pack('>H', len(m)) + m with sendall, and read one with           *)
(* _recv_exact(2), struct.unpack('>H'), _recv_exact(length).  recv hands   *)
(* over any number of the bytes that have arrived, from one up to the      *)
(* number asked for.                                                       *)
(***************************************************************************)
\* struct.pack('>H', n).
pack_H(n) == <<n \div 256, n % 256>>

\* The two bytes read the other way round ('<H').
unpack_H_little_endian(b) == b[2] * 256 + b[1]

\* struct.unpack('>H', b)[0].
unpack_H(b) == b[1] * 256 + b[2]

\* "length + apdu", the frame of payload m.
encode(m) == pack_H(Len(m)) \o m

\* The loop of _recv_exact ends: data holds length bytes.
recv_exact_done(data, length) == Len(data) >= length

\* A payload of LongLen bytes.
LongPayload == [i \in 1 .. LongLen |-> i % 256]

\* The payloads framed.
FramePayloads == { <<\h80>>, <<0, \hA4>>, <<\h90, 0, \h6F>>, LongPayload }

\* The bytes recv may hand over when n are asked for: at least one, at most
\* n, and no more than have arrived.
Chunks(n) == { k \in 1 .. n : k <= Len(wire) }

FrameInit ==
  /\ sim = SimInit
  /\ EngineIdle
  /\ ServerIdle
  /\ variant = VPCD_PROXY
  /\ BridgeIdle
  /\ FrameIdle

\* send_apdu, _handle_client: sendall(length + payload).
SendFrame(m) ==
  /\ Len(sent) < MaxSent
  /\ rx_pc \in { "length", "payload" }
  /\ ~eof
  /\ wire' = wire \o encode(m)
  /\ sent' = Append(sent, m)
  /\ UNCHANGED <<sim, engine_vars, server_vars, bridge_vars, rx_pc, rx_data,
                 rx_length, decoded, reader, eof>>

\* _recv_exact(2): one recv that hands over k bytes; when the loop ends, the
\* length is unpacked.  _recv_exact(0) returns b'', and the reader leaves.
\* send_apdu_to_jcardsim calls recv(2) once: struct.unpack raises on a single
\* byte, and main drops the socket.
RecvLength(k) ==
  LET data == rx_data \o SubSeq(wire, 1, k)
  IN  /\ rx_pc = "length"
      /\ k \in Chunks(2 - Len(rx_data))
      /\ wire' = SubSeq(wire, k + 1, Len(wire))
      /\ IF recv_exact_done(data, 2)
         THEN /\ rx_length' = unpack_H(data)
              /\ rx_data' = <<>>
              /\ rx_pc' = IF rx_length' = 0 THEN "closed" ELSE "payload"
         ELSE IF reader = SEND_APDU_TO_JCARDSIM
         THEN /\ rx_data' = <<>>
              /\ rx_pc' = "closed"
              /\ UNCHANGED rx_length
         ELSE /\ rx_data' = data
              /\ UNCHANGED <<rx_length, rx_pc>>
      /\ UNCHANGED <<sim, engine_vars, server_vars, bridge_vars, decoded, sent,
                     reader, eof>>

\* _recv_exact(length): one recv that hands over k bytes; when the loop
\* ends, the payload is whole and the reader turns to the next length.
RecvPayload(k) ==
  LET data == rx_data \o SubSeq(wire, 1, k)
  IN  /\ rx_pc = "payload"
      /\ k \in Chunks(rx_length - Len(rx_data))
      /\ wire' = SubSeq(wire, k + 1, Len(wire))
      /\ IF recv_exact_done(data, rx_length)
         THEN /\ decoded' = Append(decoded, data)
              /\ rx_data' = <<>>
              /\ rx_pc' = "length"
         ELSE /\ rx_data' = data
              /\ UNCHANGED <<decoded, rx_pc>>
      /\ UNCHANGED <<sim, engine_vars, server_vars, bridge_vars, rx_length, sent,
                     reader, eof>>

\* What the reader returns when recv returns b'' in the payload loop.
\* _recv_exact returns None; send_apdu_to_jcardsim breaks out of the loop
\* and returns the bytes it has.
payload_at_end(r, data) == IF r = SEND_APDU_TO_JCARDSIM THEN Some(data) ELSE None

\* The stream has ended (the writer closes it, if it has not ended yet):
\* once the bytes that arrived are read, recv returns b''.  _recv_exact
\* returns None and the reader leaves its loop.  send_apdu_to_jcardsim
\* returns 6F 00 when it waits for a length, the bytes it has when it waits
\* for a payload, and main keeps jc_sock.
RecvEnd ==
  LET got == IF rx_pc = "payload" THEN payload_at_end(reader, rx_data) ELSE None
  IN  /\ rx_pc \in { "length", "payload" }
      /\ wire = <<>>
      /\ eof' = TRUE
      /\ rx_pc' = IF reader = SEND_APDU_TO_JCARDSIM THEN "held" ELSE "closed"
      /\ decoded' = IF got = None THEN decoded ELSE Append(decoded, got[1])
      /\ rx_data' = IF got = None THEN rx_data ELSE <<>>
      /\ UNCHANGED <<sim, engine_vars, server_vars, bridge_vars, wire,
                     rx_length, sent, reader>>

\* The connection breaks while the writer's last bytes are under way: the
\* last d bytes written never arrive, and the stream ends.
StreamBreaks(d) ==
  /\ ~eof
  /\ rx_pc \in { "length", "payload" }
  /\ d <= Len(wire)
  /\ wire' = SubSeq(wire, 1, Len(wire) - d)
  /\ eof' = TRUE
  /\ UNCHANGED <<sim, engine_vars, server_vars, bridge_vars, rx_pc, rx_data,
                 rx_length, decoded, sent, reader>>

FrameNext ==
  \/ \E m \in FramePayloads : SendFrame(m)
  \/ \E k \in 1 .. 2 : RecvLength(k)
  \/ \E k \in 1 .. LongLen : RecvPayload(k)
  \/ RecvEnd

FrameSpec == FrameInit /\ [][FrameNext]_vars

(***************************************************************************)
(* A stream that may break, read by either reader.                         *)
(***************************************************************************)
StreamInit ==
  /\ sim = SimInit
  /\ EngineIdle
  /\ ServerIdle
  /\ variant = VPCD_PROXY
  /\ BridgeIdle
  /\ wire = <<>>
  /\ rx_pc = "length"
  /\ rx_data = <<>>
  /\ rx_length = 0
  /\ decoded = <<>>
  /\ sent = <<>>
  /\ reader \in Readers
  /\ eof = FALSE

StreamNext ==
  \/ \E m \in FramePayloads : SendFrame(m)
  \/ \E k \in 1 .. 2 : RecvLength(k)
  \/ \E k \in 1 .. LongLen : RecvPayload(k)
  \/ RecvEnd
  \/ \E d \in 1 .. MaxLost : StreamBreaks(d)

StreamSpec == StreamInit /\ [][StreamNext]_vars

(***************************************************************************)
(* Properties of the engine.                                               *)
(***************************************************************************)
\* A process_apdu call was made; Cmd is its command.
Called == apdu # None
Cmd == apdu[1]

HelloWorldState(s) ==
  <<s.data_store, s.hw_pin_validated, s.hw_pin_tries, s.hw_usage_count>>
CounterState(s) ==
  <<s.counter_value, s.counter_limit, s.counter_limit_enabled, s.counter_op_count>>

GET_STATUS == <<\h80, \hF0, 0, 0, 8>>
GET_INFO == <<\h80, \h16, 0, 0, 11>>

\* Simulator s after SELECT of aid `other` and then SELECT of the AID that
\* is selected in s.
SelectAwayAndBack(s, other) ==
  process_apdu(process_apdu(s, build_select_apdu(other)).sim,
               build_select_apdu(s.selected_aid[1])).sim

C2_HandlersKeepOtherApplet ==
  Called =>
    /\ ToHelloWorld(before, Cmd) =>
         CounterState(sim) = CounterState(before) /\ sim.selected_aid = before.selected_aid
    /\ ToCounter(before, Cmd) =>
         HelloWorldState(sim) = HelloWorldState(before) /\ sim.selected_aid = before.selected_aid

\* The Counter applet changed its value while HelloWorld held a validated
\* PIN and stored data.
C2_Witness ==
  /\ Called /\ ToCounter(before, Cmd)
  /\ sim.counter_value # before.counter_value
  /\ before.hw_pin_validated /\ before.data_store = Some(DATA_HELLO)

\* C3: a command of 0 to 3 bytes is answered with exactly 67 00 and changes
\* neither selected_aid nor any applet variable.
C3_ShortCommand ==
  (Called /\ Len(Cmd) < 4) =>
    response = SW_WRONG_LENGTH /\ ~raised /\ sim = before

\* A 3-byte command was answered while HelloWorld was selected, validated.
C3_Witness ==
  /\ Called /\ Len(Cmd) = 3
  /\ response = SW_WRONG_LENGTH
  /\ sim.selected_aid = Some(AID_HELLOWORLD) /\ sim.hw_pin_validated

\* C7: with HelloWorld selected and the PIN not validated, PUT_DATA returns
\* 69 82 (security status not satisfied) and leaves the stored data as it was.
C7_PutDataWithoutPin ==
  (Called /\ ToHelloWorld(before, Cmd) /\ Cmd[2] = \h03 /\ ~before.hw_pin_validated) =>
    response = SW_SECURITY_NOT_SATISFIED /\ sim.data_store = before.data_store

\* The last call was a GET_DATA handled by the HelloWorld applet.
GetDataDone == Called /\ ToHelloWorld(before, Cmd) /\ Cmd[2] = \h02

\* C8 as claimed: for every data field d, of length 0 too, after a PUT_DATA(d)
\* that returned 9000 the next GET_DATA returns d followed by 90 00.
C8_GetDataReturnsLastPut ==
  (GetDataDone /\ last_put # None) => response = last_put[1] \o SW_OK

\* C8 amended: for every data field d of length 1 to 255, after a PUT_DATA(d)
\* that returned 9000 the next GET_DATA handled by HelloWorld returns d
\* followed by 90 00, whatever was stored before; a PUT_DATA with an empty data
\* field that returns 9000 leaves the stored data as it was.
C8_GetDataReturnsLastNonEmptyPut ==
  /\ (GetDataDone /\ last_put # None /\ last_put[1] # <<>>) =>
       response = last_put[1] \o SW_OK /\ ~raised
  /\ (Called /\ ToHelloWorld(before, Cmd) /\ Cmd[2] = \h03
        /\ apdu_data(Cmd) = <<>> /\ response = SW_OK) =>
       sim.data_store = before.data_store

\* GET_DATA returned "Hi", stored by the fourth command HelloWorld handled
\* (so over other data: VERIFY, PUT_DATA, PUT_DATA "Hi", GET_DATA).
C8_Witness ==
  /\ GetDataDone
  /\ last_put = Some(DATA_HI)
  /\ response = DATA_HI \o SW_OK
  /\ sim.hw_usage_count = 4 /\ sim.counter_op_count = 0

\* The last call was a VERIFY PIN handled by the HelloWorld applet.
VerifyDone == Called /\ ToHelloWorld(before, Cmd) /\ Cmd[2] = \h20

\* C9: with HelloWorld selected, also when no try is left, VERIFY PIN with the
\* data "1234" returns 90 00, sets the PIN-validated flag and sets the try
\* counter to 3.
C9_CorrectPinAlwaysAccepted ==
  (VerifyDone /\ apdu_data(Cmd) = PIN_1234) =>
    /\ response = SW_OK /\ ~raised
    /\ sim.hw_pin_validated
    /\ sim.hw_pin_tries = 3

\* The right PIN was accepted when the try counter was 0.
C9_Witness ==
  /\ VerifyDone /\ apdu_data(Cmd) = PIN_1234
  /\ before.hw_pin_tries = 0 /\ ~before.hw_pin_validated
  /\ response = SW_OK /\ sim.hw_pin_tries = 3 /\ sim.hw_pin_validated

\* The replies to n wrong PINs in a row, HelloWorld freshly selected.
RECURSIVE WrongPinReplies(_, _)
WrongPinReplies(s, n) ==
  IF n = 0 THEN <<>>
  ELSE LET r == process_apdu(s, build_apdu(\h80, \h20, 0, 0, PIN_0000))
       IN  <<r.resp>> \o WrongPinReplies(r.sim, n - 1)

\* C10: VERIFY PIN with data other than "1234" lowers the try counter by 1,
\* never below 0, and replies 63 Cn with n the try counter after the call;
\* from 3 tries, wrong values in a row give 63C2, 63C1, 63C0, 63C0, ...
C10_WrongPinCountsDown ==
  /\ (VerifyDone /\ apdu_data(Cmd) # PIN_1234) =>
       /\ sim.hw_pin_tries = Max(0, before.hw_pin_tries - 1)
       /\ response = <<\h63, \hC0 + sim.hw_pin_tries>> /\ ~raised
  /\ WrongPinReplies(process_apdu(SimInit, build_select_apdu(AID_HELLOWORLD)).sim, MaxOps)
       = [i \in 1..MaxOps |-> <<\h63, \hC0 + Max(0, 3 - i)>>]

\* A wrong PIN was offered when the try counter was already 0.
C10_Witness ==
  /\ VerifyDone /\ apdu_data(Cmd) = PIN_0000
  /\ before.hw_pin_tries = 0
  /\ sim.hw_pin_tries = 0 /\ response = <<\h63, \hC0>>

(***************************************************************************)
(* Properties of the backend client shared by the handlers of a bridge.    *)
(***************************************************************************)
\* The labels at which a handler is inside connect, disconnect or send_apdu.
InsideClient == { "connect", "disconnect", "send", "recv" }

Dispatching == { t \in Clients : tpc[t] \notin { "closed", "recv", "send" } }

\* Two process_apdu calls never run at the same time.
DispatchExclusive == Cardinality(Dispatching) <= 1

\* C5: commands of concurrent connections are dispatched one at a time, so
\* no update is lost: whenever no dispatch is running, the usage counter
\* equals the number of dispatches to the HelloWorld handler and the counter
\* value equals the sum of the amounts of the accepted INCREMENTs, less
\* those of the accepted DECREMENTs.
C5_NoUpdateLost ==
  Dispatching = {} =>
    /\ sim.hw_usage_count = hw_dispatched
    /\ sim.counter_value = PyInt(0, inc_accepted)

(***************************************************************************)
(* Properties of the handlers of a bridge.                                 *)
(***************************************************************************)
\* Handler a has finished with the frame it read last.
Answered(a) == apc[a] = "read" /\ req[a] # None

\* That frame was an APDU request and the handler was unpowered when it
\* read it.
UnpoweredApdu(a) ==
  /\ Answered(a)
  /\ IsApduFrame(variant, req[a][1])
  /\ ~was_powered[a]

\* The request was refused: the not-powered status word went back, the
\* handler is still unpowered, and neither connect nor send_apdu was called.
Refused(a) ==
  /\ reply[a] = Some(SW_NOT_POWERED)
  /\ ~powered[a]
  /\ ~touched[a]

\* C6: an APDU request to an unpowered adapter is answered with the fixed
\* not-powered status word, leaves the adapter unpowered, and makes no
\* connect to and no exchange with the backend.
C6_UnpoweredApduRefused == \A a \in Adapters : UnpoweredApdu(a) => Refused(a)

\* What each script does with such a request: VPCDHandler refuses it,
\* handle_vpcd_client powers the card on and calls connect, and VPCDServer
\* forwards it without a look at self.powered.
UnpoweredApduByScript ==
  \A a \in Adapters :
    UnpoweredApdu(a) =>
      CASE variant = VPCD_JCARDSIM_PROXY -> Refused(a)
        [] variant = VPCD_PROXY ->
             powered[a] /\ touched[a] /\ reply[a] # Some(SW_NOT_POWERED)
        [] variant = PCSC_BRIDGE ->
             ~powered[a] /\ touched[a] /\ reply[a] # Some(SW_NOT_POWERED)

(***************************************************************************)
(* Further properties of the engine.                                       *)
(***************************************************************************)
\* The last call went to the Counter handler with instruction ins.
CounterCall(ins) == Called /\ ToCounter(before, Cmd) /\ Cmd[2] = ins

\* The amount of INCREMENT and DECREMENT: P1, or 1 when P1 is 0.
Amount(cmd) == IF cmd[3] > 0 THEN cmd[3] ELSE 1

\* The last call was an ADD_VALUE or SUB_VALUE with a 2-byte operand.
Operand2 == Len(apdu_data(Cmd)) = 2

\* new_val is over the limit that is enabled in s, or over 0xFFFFFFFF.
Exceeds(s, new_val) ==
  \/ s.counter_limit_enabled /\ IntGt(new_val, s.counter_limit)
  \/ new_val[1] >= Radix

\* The last call is one that C11 says must be rejected.
MustReject ==
  \/ CounterCall(\h11) /\ Exceeds(before, IntAdd(before.counter_value, Amount(Cmd)))
  \/ /\ CounterCall(\h17)
     /\ Operand2
     /\ Exceeds(before, IntAdd(before.counter_value, from_bytes2(apdu_data(Cmd))))
  \/ CounterCall(\h12) /\ IntLtSmall(before.counter_value, Amount(Cmd))
  \/ /\ CounterCall(\h18)
     /\ Operand2
     /\ IntLtSmall(before.counter_value, from_bytes2(apdu_data(Cmd)))

\* C11: with Counter selected, an INCREMENT or ADD whose result would exceed
\* an enabled limit or 0xFFFFFFFF, and a DECREMENT or SUBTRACT whose operand
\* exceeds the current value, is answered 6985, and the counter value, the
\* limit and the limit-enabled flag are what they were before the command.
C11_RejectedWithoutChange ==
  MustReject =>
    /\ ~raised
    /\ response = SW_CONDITIONS_NOT_SATISFIED
    /\ sim.counter_value = before.counter_value
    /\ sim.counter_limit = before.counter_limit
    /\ sim.counter_limit_enabled = before.counter_limit_enabled

\* An ADD of FFFF to a counter standing at FFFFFFFF, no limit enabled, was
\* rejected.
C11_Witness ==
  /\ MustReject
  /\ CounterCall(\h17)
  /\ before.counter_value = PyInt(\hFFFF, \hFFFF)
  /\ ~before.counter_limit_enabled
  /\ response = SW_CONDITIONS_NOT_SATISFIED

\* The replies the end-to-end sequence is to get, the first up to its last
\* two bytes.
EndToEndReplies ==
  << SW_OK, HELLO_WORLD \o SW_OK, SW_OK, SW_OK, DATA_HELLO \o SW_OK >>

\* The last two bytes of a reply.
StatusWord(r) == SubSeq(r, Len(r) - 1, Len(r))

\* C12: from the initial state, SELECT F0000000010001, HELLO, VERIFY PIN
\* "1234", PUT_DATA "Hello", GET_DATA are answered, in this order, by a
\* reply ending in 9000, "Hello World!" 9000, 9000, 9000 and 48656C6C6F 9000.
C12_EndToEnd ==
  followed \in 1 .. Len(EndToEnd) =>
    /\ ~raised
    /\ IF followed = 1 THEN Len(response) >= 2 /\ StatusWord(response) = SW_OK
       ELSE response = EndToEndReplies[followed]

\* The whole sequence was run and GET_DATA returned "Hello".
C12_Witness ==
  /\ followed = Len(EndToEnd)
  /\ Cmd = EndToEnd[Len(EndToEnd)]
  /\ response = DATA_HELLO \o SW_OK

\* The last call was a PUT_DATA to HelloWorld.
PutDataDone == Called /\ ToHelloWorld(before, Cmd) /\ Cmd[2] = \h03

\* C13: once HelloWorld, its PIN validated, has been deselected by a SELECT
\* of another applet and selected again, a PUT_DATA that comes before a new
\* successful VERIFY PIN is rejected: it is not answered 9000 and stores
\* nothing.
C13_ReselectResetsPin ==
  hw_cycle = "back" /\ PutDataDone =>
    /\ ~raised
    /\ response # SW_OK
    /\ sim.data_store = before.data_store

(***************************************************************************)
(* Further properties of the backend clients                               *)
(***************************************************************************)

\* The latest send_apdu call failed and no call of the client has started
\* since.
ExchangeFailed == last_exchange = "failed"

\* C14: after a send_apdu call that fails (send error, the peer closing the
\* stream before the whole length or payload was read, a read timeout), the
\* client holds no socket.
C14_FailureDropsConnection == ExchangeFailed => sock = "none"

\* Handler a has answered an APDU request that it read while powered, with
\* the client holding no open socket (an exchange had failed or the
\* connection was lost) and the backend up and sound from then on.
Recovering(a) ==
  /\ Answered(a)
  /\ IsApduFrame(variant, req[a][1])
  /\ was_powered[a]
  /\ note[a].cold
  /\ note[a].calm

\* C15: after a failed exchange or a lost connection, with the backend
\* reachable again, the next APDU request on a powered adapter reconnects and
\* is answered from the backend's response; no POWER OFF or RESET is needed.
C15_NextApduReconnects ==
  \A a \in Adapters : Recovering(a) => touched[a] /\ note[a].got # None

(***************************************************************************)
(* Further properties of the handlers                                      *)
(***************************************************************************)

\* Handler a has replied to an APDU request.
ApduReplied(a) ==
  /\ Answered(a)
  /\ IsApduFrame(variant, req[a][1])
  /\ reply[a] # None

\* The bytes of that reply; pcsc-bridge.py puts their number in front.
ReplyPayload(a) ==
  IF variant = PCSC_BRIDGE THEN Tail(reply[a][1]) ELSE reply[a][1]

\* The backend's response to that request was shorter than a status word.
ShortResponse(a) == note[a].got # None /\ Len(note[a].got[1]) < 2

\* C16: the reply to an APDU request carries at least 2 bytes, and it is
\* 6F 00 whenever the backend's response had 0 or 1 bytes or broke off.
C16_ReplyHasStatusWord ==
  \A a \in Adapters :
    ApduReplied(a) =>
      /\ Len(ReplyPayload(a)) >= 2
      /\ ShortResponse(a) => ReplyPayload(a) = SW_UNKNOWN

(***************************************************************************)
(* Properties of the framing                                               *)
(***************************************************************************)
RECURSIVE Frames(_, _)
\* The frames of payloads number i and later of seq, one after the other.
Frames(seq, i) == IF i > Len(seq) THEN <<>> ELSE encode(seq[i]) \o Frames(seq, i + 1)

\* The reader stands between two frames.
AtBoundary == rx_pc = "length" /\ rx_data = <<>>

\* C17: whatever the chunks recv hands over, the reader gets every payload
\* back as it was framed, and after each one it stands at the first byte of
\* the next frame.
C17_FramingRoundTrip ==
  /\ Len(decoded) <= Len(sent)
  /\ \A i \in 1 .. Len(decoded) : decoded[i] = sent[i]
  /\ AtBoundary => wire = Frames(sent, Len(decoded) + 1)

\* Two frames were read whole, the long one and then a short one.
C17_Witness ==
  /\ Len(decoded) = MaxSent
  /\ decoded[1] = LongPayload
  /\ Len(decoded[MaxSent]) < LongLen
  /\ AtBoundary

\* Connection a has been accepted and no frame has been read from it yet.
NewConnection(a) == apc[a] = "read" /\ req[a] = None

\* C18: a connection that has just been accepted is unpowered, whatever
\* earlier or concurrent connections did.
C18_StartsUnpowered == \A a \in Adapters : NewConnection(a) => ~powered[a]

\* In this step handler a sends its reply to frame f, or finishes with it.
AnswersFrame(a, f) ==
  /\ apc[a] \notin { "off", "read" }
  /\ apc'[a] = "read"
  /\ req[a] = Some(f)

\* C19: POWER OFF leaves the adapter unpowered and the backend client
\* without an open connection, and its reply is the success code 00.
C19_PowerOffReleases ==
  [][\A a \in Adapters :
       AnswersFrame(a, <<CYCLIC_POWER_OFF>>) =>
         /\ ~powered'[a]
         /\ sock' # "open"
         /\ reply'[a] = Some(<<0>>)]_vars

\* The frame that asks script v for a reset, and the reply with which v
\* reports success: the ATR, or the status 00 in pcsc-bridge.py.
ResetFrame(v) == IF v = VPCD_PROXY THEN <<CYCLIC_RESET>> ELSE <<VPCD_CTRL_RESET>>
ResetSucceeded(v) == IF v = PCSC_BRIDGE THEN <<0>> ELSE DEFAULT_ATR(v)

\* C20: RESET leaves the adapter powered and the client with a new
\* connection, and its reply reports success exactly when that connection
\* was made.
C20_ResetReconnects ==
  [][\A a \in Adapters :
       AnswersFrame(a, ResetFrame(variant)) =>
         /\ powered'[a]
         /\ reply'[a] = Some(ResetSucceeded(variant)) <=> sock' = "open"]_vars

\* Handler a has dealt with a POWER ON that it read while powered
\* (vpcd-proxy.py has no such code: its 01 is RESET).
PowerOnWhilePowered(a) ==
  /\ variant # VPCD_PROXY
  /\ Answered(a)
  /\ req[a] = Some(<<VPCD_CTRL_ON>>)
  /\ was_powered[a]

\* C21: POWER ON on a powered adapter replies success and changes nothing:
\* the adapter stays powered and the client's connection is not opened again
\* or replaced.
C21_PowerOnIsNoOp ==
  \A a \in Adapters :
    PowerOnWhilePowered(a) =>
      /\ powered[a]
      /\ reply[a] = Some(<<0>>)
      /\ ~touched[a]

\* The frames with which script v is told to power off, power on or reset.
PowerFrames(v) ==
  IF v = VPCD_PROXY THEN { <<CYCLIC_POWER_OFF>>, <<CYCLIC_RESET>> }
  ELSE { <<VPCD_CTRL_OFF>>, <<VPCD_CTRL_ON>>, <<VPCD_CTRL_RESET>> }

\* C22: a frame that is not POWER OFF, POWER ON or RESET (GET ATR, an APDU,
\* CARD PRESENT, an unknown code) leaves the power state as it found it.
C22_OnlyPowerFramesChangePower ==
  \A a \in Adapters :
    Answered(a) /\ req[a][1] \notin PowerFrames(variant) =>
      powered[a] = was_powered[a]

\* Handler a has dealt with a frame whose control code it does not know.
UnknownCode(a) == Answered(a) /\ req[a] = Some(<<\hFF>>)

\* C23: an unknown control code gets one reply, the error code 01, changes
\* neither the power state nor the client's connection, and the handler
\* reads on.
C23_UnknownCodeGetsError ==
  \A a \in Adapters :
    UnknownCode(a) =>
      /\ reply[a] = Some(<<1>>)
      /\ powered[a] = was_powered[a]
      /\ ~touched[a]

\* In this step the handler of connection a ends.
HandlerEnds(a) == apc[a] # "off" /\ apc'[a] = "off"

\* C24: the end of one handler leaves the client's socket and lock as they
\* are, and every exchange that another handler has in flight stays in
\* flight.
C24_CloseSparesBackend ==
  [][\A a \in Adapters :
       HandlerEnds(a) =>
         /\ sock' = sock
         /\ lock' = lock
         /\ \A b \in InFlight \ {a} : apc'[b] = "recv"]_vars

\* An exchange on an open socket is in flight after another connection
\* closed beside it.
C24_Witness == \E b \in survived : apc[b] = "recv" /\ sock = "open" /\ lock = b

\* C25: on one connection every frame that is not empty gets its reply
\* before the next frame is read, and while a frame is being handled no
\* reply to it has gone out yet.
C25_OneReplyPerFrame ==
  \A a \in Adapters :
    /\ Answered(a) /\ req[a] # Some(<<>>) => reply[a] # None
    /\ apc[a] \notin { "off", "read" } => req[a] # None /\ reply[a] = None

\* C26: while one connection is being served, the accept loop is free to
\* accept another one.
C26_AcceptNeverWaits ==
  \A a, b \in Adapters :
    apc[a] # "off" /\ apc[b] = "off" => ENABLED AcceptDriver(b)

(***************************************************************************)
(* C27: for every instruction, a command whose declared data length (the   *)
(* byte at offset 4) exceeds the number of data bytes present is answered  *)
(* with 67 00 and changes no state; the truncated data field is never      *)
(* processed as if it were complete.                                       *)
(***************************************************************************)
\* apdu carries data bytes, fewer than its Lc byte announces.
Truncated(cmd) == Len(cmd) > 5 /\ cmd[5] > Len(cmd) - 5

C27_TruncatedDataRefused ==
  Called /\ Truncated(apdu[1]) =>
    /\ ~raised
    /\ response = SW_WRONG_LENGTH
    /\ sim = before

(***************************************************************************)
(* C28: process_apdu returns at least two bytes for every command in every *)
(* reachable state and never raises; GET_INFO and GET STATUS still return  *)
(* their block and 90 00 after counter_op_count or hw_usage_count has      *)
(* passed 65535.                                                           *)
(***************************************************************************)
C28_DispatchNeverRaises == Called => ~raised /\ Len(response) >= 2

(***************************************************************************)
(* C29: when connecting or reconnecting to the backend fails while an APDU *)
(* request is handled, the adapter replies 6F 00, keeps the connection of  *)
(* the reader driver open and goes on to read the following frames.        *)
(***************************************************************************)
\* Handler a, holding an APDU request, is about to connect to a backend
\* that refuses connections.
AtConnect(a) ==
  /\ req[a] # None
  /\ IsApduFrame(variant, req[a][1])
  /\ ~backend_up
  /\ CASE variant = VPCD_PROXY -> apc[a] = "connect"
       [] variant = VPCD_JCARDSIM_PROXY -> apc[a] = "send" /\ sock = "none"
       [] variant = PCSC_BRIDGE -> apc[a] = "serve" /\ sock = "none"

\* a takes that step: connect fails.
ConnectFails(a) == AtConnect(a) /\ apc'[a] # apc[a]

C29_ConnectFailureAnswered ==
  [][\A a \in Adapters :
       ConnectFails(a) =>
         /\ apc'[a] = "read"
         /\ reply'[a] = Some(IF variant = PCSC_BRIDGE THEN <<2>> \o SW_UNKNOWN
                                                       ELSE SW_UNKNOWN)]_vars

\* An APDU request answered 6F 00 by a handler that goes on reading, the
\* socket its connect created still unconnected.
C29_Witness ==
  \E a \in Adapters :
    /\ ApduReplied(a)
    /\ touched[a]
    /\ ~backend_up
    /\ sock = "fresh"
    /\ ReplyPayload(a) = SW_UNKNOWN

(***************************************************************************)
(* C30: if a stream closes after a length prefix was read and before all   *)
(* the announced payload bytes arrived, the partial payload is never       *)
(* dispatched, returned or forwarded: the read fails and the link is       *)
(* closed.                                                                 *)
(***************************************************************************)
\* recv returns b'' to a reader that has unpacked a length and waits for
\* payload bytes.
TruncatedRead == rx_pc = "payload" /\ wire = <<>> /\ rx_pc' # rx_pc

C30_PartialPayloadDropped ==
  [][TruncatedRead => decoded' = decoded /\ rx_pc' = "closed"]_vars

(***************************************************************************)
(* C31: every send_apdu call returns in the end, with a response or an     *)
(* error, and releases the lock of the backend client, a silent backend    *)
(* ending in a timeout; so no handler waits for the lock for ever and      *)
(* every APDU request on a live connection gets a reply.                   *)
(***************************************************************************)
\* Handler a has taken an APDU request and not replied yet.
Pending(a) ==
  /\ apc[a] \notin { "off", "read", "absorb" }
  /\ req[a] # None
  /\ IsApduFrame(variant, req[a][1])

C32_SelectSetsAid ==
  Called /\ IsSelect(before, apdu[1]) =>
    LET cmd == apdu[1]
    IN  IF Len(cmd) < 5 \/ Len(cmd) < 5 + cmd[5]
        THEN /\ ~raised
             /\ response = SW_WRONG_LENGTH
             /\ sim.selected_aid = before.selected_aid
        ELSE LET aid == SubSeq(cmd, 6, 5 + cmd[5])
             IN  /\ ~raised
                 /\ sim.selected_aid = Some(aid)
                 /\ response = <<\h6F, cmd[5] + 2, \h84, cmd[5]>> \o aid \o SW_OK

(***************************************************************************)
(* C33: a command of at least 4 bytes that is neither SELECT nor GET       *)
(* RESPONSE returns 6D 00 and changes no state whenever its class byte is  *)
(* not 80, or no applet is selected, or selected_aid is the AID of neither *)
(* installed applet.                                                       *)
(***************************************************************************)
\* cmd reaches the end of process_apdu in simulator s.
Unrouted(s, cmd) ==
  /\ Len(cmd) >= 4
  /\ cmd[2] \notin { \hA4, \hC0 }
  /\ \/ cmd[1] # \h80
     \/ s.selected_aid = None
     \/ s.selected_aid \notin { Some(AID_HELLOWORLD), Some(AID_COUNTER) }

C33_UnroutedNotSupported ==
  Called /\ Unrouted(before, apdu[1]) =>
    /\ ~raised
    /\ response = SW_INS_NOT_SUPPORTED
    /\ sim = before

\* Class FF with HelloWorld selected, its PIN validated.
C33_Witness ==
  /\ Called
  /\ Unrouted(before, apdu[1])
  /\ apdu[1][1] = \hFF
  /\ before.selected_aid = Some(AID_HELLOWORLD)
  /\ before.hw_pin_validated
  /\ response = SW_INS_NOT_SUPPORTED

(***************************************************************************)
(* C34: every well-formed instruction dispatched to the Counter applet,    *)
(* committed or rejected, increments counter_op_count by exactly 1, and a  *)
(* malformed one (SET_VALUE, SET_LIMIT, ADD_VALUE or SUB_VALUE with an     *)
(* operand of the wrong length) does not increment it.                     *)
(***************************************************************************)
\* cmd carries an operand of the wrong length for its instruction.
MalformedOperand(cmd) ==
  \/ cmd[2] \in { \h14, \h15 } /\ Len(apdu_data(cmd)) # 4
  \/ cmd[2] \in { \h17, \h18 } /\ Len(apdu_data(cmd)) # 2

C34_OpCountCountsWellFormed ==
  Called /\ ToCounter(before, apdu[1]) =>
    sim.counter_op_count =
      before.counter_op_count + (IF MalformedOperand(apdu[1]) THEN 0 ELSE 1)

(***************************************************************************)
(* C35: SET_LIMIT with a 4-byte operand always returns 90 00, overwrites   *)
(* counter_limit with the operand and sets counter_limit_enabled to        *)
(* p1 = 1, whatever the counter value, and leaves the counter value        *)
(* unchanged, also when it is above the new enabled limit.                 *)
(***************************************************************************)
\* SET_LIMIT with a 4-byte operand, dispatched to Counter.
SetLimit(s, cmd) ==
  /\ ToCounter(s, cmd)
  /\ cmd[2] = \h15
  /\ Len(apdu_data(cmd)) = 4

C35_SetLimitUnconditional ==
  Called /\ SetLimit(before, apdu[1]) =>
    /\ ~raised
    /\ response = SW_OK
    /\ sim.counter_limit = from_bytes4(apdu_data(apdu[1]))
    /\ sim.counter_limit_enabled = (apdu[1][3] = 1)
    /\ sim.counter_value = before.counter_value

\* An enabled limit set below the counter value.
C35_Witness ==
  /\ Called
  /\ SetLimit(before, apdu[1])
  /\ apdu[1][3] = 1
  /\ IntGt(before.counter_value, sim.counter_limit)
  /\ sim.counter_limit_enabled
  /\ response = SW_OK

(***************************************************************************)
(* C36: for every complete command frame the socket server receives, also  *)
(* one whose payload has 0 to 3 bytes, it sends exactly one response frame *)
(* (67 00 for those short commands) and keeps the connection open for the  *)
(* next frame.                                                             *)
(***************************************************************************)
\* Thread t receives a complete frame.
FrameArrives(t) == tpc[t] = "recv" /\ tsent'[t] = tsent[t] + 1

\* Thread t leaves process_apdu with a command of fewer than 4 bytes.
ShortProcessed(t) ==
  tpc[t] = "process_apdu" /\ Len(tcmd[t]) < 4 /\ tpc'[t] # tpc[t]

C36_EveryFrameAnswered ==
  [][\A t \in Clients :
       /\ FrameArrives(t) => tpc'[t] = "process_apdu"
       /\ ShortProcessed(t) =>
            tpc'[t] = "send" /\ tloc'[t].resp = SW_WRONG_LENGTH]_vars

(***************************************************************************)
(* Handlers sharing one backend client, and control codes                  *)
(***************************************************************************)

\* Handler a has replied to an APDU request that it read while powered, with
\* the client holding an open socket and the backend up and sound until
\* the reply.
PoweredApdu(a) ==
  /\ ApduReplied(a)
  /\ was_powered[a]
  /\ ~note[a].cold
  /\ note[a].calm

\* C37: the APDU request of a powered adapter, with the backend reachable, is
\* answered with the backend's response, whatever POWER OFF or RESET the
\* handlers of other connections on the same backend client process before
\* or meanwhile.
C37_OtherControlCodesHarmless ==
  \A a \in Adapters :
    PoweredApdu(a) =>
      /\ note[a].got # None
      /\ Len(note[a].got[1]) >= 2 => ReplyPayload(a) = note[a].got[1]

(***************************************************************************)
(* A response and the command it answers                                   *)
(***************************************************************************)

\* send_apdu, called by handler a, returned a response read from the
\* backend's stream.
Returned(a) == ApduReplied(a) /\ note[a].got # None

\* C38: the response a send_apdu call returns is the backend's response to
\* the command sent in that call, also after an earlier exchange on the same
\* client timed out or failed; the late response to an earlier command is
\* never returned for a later one.
C38_ResponseAnswersItsCommand ==
  \A a \in Adapters : Returned(a) => note[a].got = note[a].own

(***************************************************************************)
(* The frames of pcsc-bridge.py                                            *)
(***************************************************************************)

\* Handler a of pcsc-bridge.py is through with the first byte of a frame
\* that carries a command APDU of 4 to 255 bytes behind its length byte.
ApduServed(a) ==
  /\ variant = PCSC_BRIDGE
  /\ apc[a] \in { "read", "absorb" }
  /\ req[a] # None
  /\ Len(req[a][1]) > 1
  /\ req[a][1][1] \in 4 .. 255
  /\ Len(req[a][1]) >= req[a][1][1] + 1

\* C39: in pcsc-bridge.py every command APDU of 4 to 255 bytes, sent as its
\* length byte and its bytes, is forwarded to the backend as that APDU and
\* answered with one reply; no length is taken for a control code.
C39_LengthNeverControlCode ==
  \A a \in Adapters :
    ApduServed(a) =>
      /\ IsApduFrame(variant, req[a][1])
      /\ touched[a]
      /\ apc[a] = "read"
      /\ reply[a] # None

(***************************************************************************)
(* The range of the counter                                                *)
(***************************************************************************)

\* The Python integer v lies in 0 .. 0xFFFFFFFF.
InRange4(v) ==
  /\ 0 <= v[1] /\ v[1] < Radix
  /\ 0 <= v[2] /\ v[2] < Radix

\* C40: in every reachable state the counter value and the counter limit are
\* integers in 0 .. 0xFFFFFFFF, so their 4-byte big-endian encodings in the
\* replies never overflow or go negative.
C40_CounterInRange ==
  /\ InRange4(sim.counter_value)
  /\ InRange4(sim.counter_limit)

====
